---- MODULE Spec2Model ----
(***************************************************************************)
(* hashstash: a content-addressed store (StashMap) with hash-based         *)
(* deduplication and reference-counted cascading release, the Stasher      *)
(* backends that hash and serialize one field declaration, and the         *)
(* Unstasher / InplaceUnstasher readers with the two-phase in-place        *)
(* protocol.                                                               *)
(*                                                                         *)
(* User objects are trees: a node declares one u8 field and then one       *)
(* nested object per child (stasher.u8(v); stasher.object(kid) ...).       *)
(* SeaHasher is modelled as a collision-free hasher: its state is the log  *)
(* of the chunks written to it and finish() is that log.                   *)
(***************************************************************************)
EXTENDS Integers, Sequences, FiniteSets, TLC

\* ---------------------------------------------------------------- bounds
MaxSum == 1
MaxHandles == 2
MaxLen == 6       \* bytes in a stream handed to a reader
MaxCount == 1     \* elements an array or a string announces
MaxDeps == 2      \* dependencies beside a stream handed to a reader
MaxElems == 2     \* elements of an array of objects
MaxContext == 2   \* contexts a HashCache is read under: 0..MaxContext
MaxRunning == 2   \* operations of one Stash that are in progress at once

\* ------------------------------------------------------ program constants
TagU8 == 2
TagStashedObject == 48
TagU64 == 8
TagArrayU8 == 18
TagString == 32
\* the tag of an array of objects: in the family of the object reference
TagArrayOfObjects == 49
RefCountModulus == 65536

\* ------------------------------------------------------------ user values
\* A user object: an optional u8 field (NoPrim: the type declares none)
\* followed by nested objects.
NoPrim == -1

Node(v, kids) == [v |-> v, kids |-> kids]

Vals == 0..MaxSum

\* The user types, each given by its create() value.
LeafT == Node(0, <<>>)

WrapT == Node(0, <<LeafT>>)

PairT == Node(NoPrim, <<LeafT, LeafT>>)

OuterT == Node(NoPrim, <<WrapT>>)

Types == {LeafT, WrapT, PairT, OuterT}

RECURSIVE ValuesOf(_), KidValues(_, _)
\* every value of a type
ValuesOf(t) ==
    {Node(v, kids) : v \in (IF t.v = NoPrim THEN {NoPrim} ELSE Vals),
                     kids \in KidValues(t.kids, 1)}

KidValues(ts, i) ==
    IF i > Len(ts) THEN {<<>>}
    ELSE {<<k>> \o rest : k \in ValuesOf(ts[i]), rest \in KidValues(ts, i + 1)}

RECURSIVE Weight(_), WeightOfKids(_, _)
\* the sum of the u8 fields of a value
Weight(x) ==
    (IF x.v = NoPrim THEN 0 ELSE x.v) + WeightOfKids(x.kids, 1)

WeightOfKids(kids, i) ==
    IF i > Len(kids) THEN 0 ELSE Weight(kids[i]) + WeightOfKids(kids, i + 1)

\* the objects that get stashed: the values whose fields add up to MaxSum at most
Universe == {x \in UNION {ValuesOf(t) : t \in Types} : Weight(x) <= MaxSum}

\* the user objects that get restored in place
Targets == Types

RECURSIVE TypeOf(_)
\* the type of a value: its create() value
TypeOf(x) ==
    Node(IF x.v = NoPrim THEN NoPrim ELSE 0,
         [i \in 1..Len(x.kids) |-> TypeOf(x.kids[i])])

\* Let(S): the value bound by a one-element set, { body : x \in {value} }
Let(S) == CHOOSE x \in S : TRUE

\* ------------------------------------------------------------- valuetypes
\* PrimitiveType::from_nibble
PrimitiveFromNibble(nib) ==
    IF nib \in 1..11 THEN "Ok" ELSE "Corrupted"

\* ValueType::to_byte for Primitive(U8) and StashedObject
ToByteU8 == 0 + TagU8

ToByteStashedObject == TagStashedObject

\* ValueType::from_byte: <<status, category, primitive nibble>>
FromByte(byte) ==
    LET hi == (byte \div 16) * 16
        lo == byte % 16
    IN  CASE hi \in {0, 16} ->
               IF PrimitiveFromNibble(lo) = "Ok"
                  THEN <<"Ok", IF hi = 0 THEN "Primitive" ELSE "Array", lo>>
                  ELSE <<"Corrupted", "", 0>>
          [] hi = 32 -> <<"Ok", "String", 0>>
          [] hi = 48 -> <<"Ok", "StashedObject", 0>>
          [] OTHER -> <<"Corrupted", "", 0>>

\* ValueType::from_byte of the crate version that has ArrayOfObjects
ValueTypeFromByte(byte) ==
    IF byte = TagArrayOfObjects THEN <<"Ok", "ArrayOfObjects", 0>>
    ELSE FromByte(byte)

\* ------------------------------------------------------------------ store
StashedObject(bytes, rc, deps) ==
    [bytes |-> bytes, reference_count |-> rc, dependencies |-> deps]

\* StashMap::new
StashMapNew == <<>>

Insert(objs, hash, entry) ==
    [h \in DOMAIN objs \cup {hash} |-> IF h = hash THEN entry ELSE objs[h]]

Remove(objs, hash) ==
    [h \in DOMAIN objs \ {hash} |-> objs[h]]

SetRefCount(objs, hash, rc) ==
    [objs EXCEPT ![hash].reference_count = rc]

\* ---------------------------------------------------------------- stasher
\* chunks written to the hasher
ByteItem(b) == [k |-> "byte", n |-> b, x |-> {}]

U64Item(h) == [k |-> "u64", n |-> 0, x |-> {h}]

\* Hasher::write_u32
U32Item(n) == [k |-> "u32", n |-> n, x |-> {}]

\* Order
Orders == {"Ordered", "Unordered"}

\* Option<u64> of HashingStasher::current_unordered_hash. The exclusive or
\* of the hashes of distinct contents is the set of those that occur an odd
\* number of times; Some(0) is the empty set
NoUnorderedHash == [some |-> FALSE, x |-> {}]

SomeUnorderedHash(x) == [some |-> TRUE, x |-> x]

\* mutant: the hashes are collected, so that none cancels another
XorKeepsAll(x, h) == x \cup {h}

\* a ^ h on such sets
Xor(x, h) == (x \ {h}) \cup ({h} \ x)

\* Hasher::write_u64 of a value that is an exclusive or of hashes
XorItem(x) == [k |-> "u64", n |-> 0, x |-> x]

\* Stasher::new_hasher
NewHasher == [mode |-> "Hash", hasher |-> <<>>,
              current_unordered_hash |-> NoUnorderedHash]

\* Stasher::new_serializer
NewSerializer(objs) ==
    [mode |-> "Serialize", data |-> <<>>, dependencies |-> <<>>, stashmap |-> objs]

\* StasherBackend::write_raw_bytes
WriteRawBytes(st, bytes) ==
    IF st.mode = "Hash"
       THEN [st EXCEPT !.hasher = @ \o [i \in 1..Len(bytes) |-> ByteItem(bytes[i])]]
       ELSE [st EXCEPT !.data = @ \o bytes]

\* Stasher::write_primitive::<u8>
StasherU8(st, x) ==
    WriteRawBytes(st, <<ToByteU8, x>>)

\* StasherBackend::begin_sequence: <<backend, bookmark>>
BeginSequence(st, ordering) ==
    IF st.mode = "Hash"
       THEN <<IF ordering = "Unordered"
                 THEN [st EXCEPT !.current_unordered_hash = SomeUnorderedHash({})]
                 ELSE st,
              0>>
       ELSE <<[st EXCEPT !.data = @ \o <<0, 0, 0, 0>>], Len(st.data)>>

\* mutant: the length is written at the start of the data, not at the bookmark
EndSequenceAtStart(st, bookmark, length) ==
    IF st.mode = "Hash"
       THEN [st EXCEPT
               !.hasher = (IF st.current_unordered_hash.some
                              THEN Append(@, XorItem(st.current_unordered_hash.x))
                              ELSE @) \o <<U32Item(length)>>,
               !.current_unordered_hash = NoUnorderedHash]
       ELSE [st EXCEPT !.data = [i \in DOMAIN @ |->
                                   IF i \in 1..4 THEN <<0, 0, 0, length>>[i]
                                   ELSE @[i]]]

\* StasherBackend::end_sequence; length.to_be_bytes() of a length below 256
EndSequence(st, bookmark, length) ==
    IF st.mode = "Hash"
       THEN [st EXCEPT
               !.hasher = (IF st.current_unordered_hash.some
                              THEN Append(@, XorItem(st.current_unordered_hash.x))
                              ELSE @) \o <<U32Item(length)>>,
               !.current_unordered_hash = NoUnorderedHash]
       ELSE [st EXCEPT !.data = [i \in DOMAIN @ |->
                                   IF i \in bookmark + 1 .. bookmark + 4
                                      THEN <<0, 0, 0, length>>[i - bookmark]
                                      ELSE @[i]]]

\* a user object with a Vec of objects: it declares stasher.object(kid) for
\* each of kids, then stasher.array_of_objects_slice(&self.elems, self.order)
Holder(kids, order, elems) == [kids |-> kids, order |-> order, elems |-> elems]

IsHolder(obj) == "elems" \in DOMAIN obj

RECURSIVE StashObject(_, _, _), StashDependency(_, _), WithStasher(_),
          StashAndAddReference(_, _), StashDependencies(_, _, _),
          StashObjects(_, _, _)

\* mutant: the hash of a nested object is written into the bytes as well
StashObjectsInlineHash(st, kids, i) ==
    IF i > Len(kids) THEN st
    ELSE StashObjects(
            Let({IF d.mode = "Hash" THEN d ELSE [d EXCEPT !.data = @ \o <<0, 0, 0, 0, 0, 0, 0, 1>>] :
                 d \in {StashDependency(WriteRawBytes(st, <<ToByteStashedObject>>),
                                        kids[i])}}),
            kids, i + 1)

\* stasher.object(kid) for each kid: Stasher::object_with_context
StashObjects(st, kids, i) ==
    IF i > Len(kids) THEN st
    ELSE StashObjects(StashDependency(WriteRawBytes(st, <<ToByteStashedObject>>),
                                      kids[i]),
                      kids, i + 1)

\* the loop of Stasher::array_of_objects_iter_with_context
StashDependencies(st, elems, i) ==
    IF i > Len(elems) THEN st
    ELSE StashDependencies(StashDependency(st, elems[i]), elems, i + 1)

\* Stasher::array_of_objects_iter_with_context
ArrayOfObjectsIter(st, elems, order) ==
    Let({EndSequence(StashDependencies(b[1], elems, 1), b[2], Len(elems)) :
         b \in {BeginSequence(WriteRawBytes(st, <<TagArrayOfObjects>>), order)}})

RECURSIVE WriteEach(_, _, _)
\* for x in it { x.write_raw_bytes_to(self); }: a u8 is written as itself
WriteEach(st, xs, i) ==
    IF i > Len(xs) THEN st
    ELSE WriteEach(WriteRawBytes(st, <<xs[i]>>), xs, i + 1)

\* Stasher::write_primitive_array::<u8>
WritePrimitiveArray(st, xs) ==
    Let({EndSequence(WriteEach(b[1], xs, 1), b[2], Len(xs)) :
         b \in {BeginSequence(WriteRawBytes(st, <<TagArrayU8>>), "Ordered")}})

\* Stasher::string; bytes is x.as_bytes()
StasherString(st, bytes) ==
    Let({EndSequence(WriteRawBytes(b[1], bytes), b[2], Len(bytes)) :
         b \in {BeginSequence(WriteRawBytes(st, <<TagString>>), "Ordered")}})

\* impl Stashable: stasher.u8(self.v); then stasher.object(kid) for each kid
\* (Stasher::object_with_context writes the tag, then stash_dependency)
StashObject(obj, st, i) ==
    IF IsHolder(obj)
       THEN ArrayOfObjectsIter(StashObjects(st, obj.kids, 1), obj.elems, obj.order)
    ELSE IF i > Len(obj.kids) THEN st
    ELSE StashObject(obj,
            IF i = 0
               THEN (IF obj.v = NoPrim THEN st ELSE StasherU8(st, obj.v))
               ELSE StashDependency(WriteRawBytes(st, <<ToByteStashedObject>>),
                                    obj.kids[i]),
            i + 1)

\* mutant: a dependency already listed by the parent is not listed again
StashDependencyListsOnce(st, obj) ==
    IF st.mode = "Hash"
       THEN IF st.current_unordered_hash.some
               THEN [st EXCEPT !.current_unordered_hash.x = Xor(@, WithStasher(obj))]
               ELSE [st EXCEPT !.hasher = Append(@, U64Item(WithStasher(obj)))]
       ELSE Let({[st EXCEPT !.stashmap = r.objects,
                            !.dependencies =
                                IF \E j \in DOMAIN @ : @[j] = r.hash
                                   THEN @ ELSE Append(@, r.hash)] :
                 r \in {StashAndAddReference(st.stashmap, obj)}})

\* mutant: the serializer lists the newest dependency first
StashDependencyPrepends(st, obj) ==
    IF st.mode = "Hash"
       THEN IF st.current_unordered_hash.some
               THEN [st EXCEPT !.current_unordered_hash.x = Xor(@, WithStasher(obj))]
               ELSE [st EXCEPT !.hasher = Append(@, U64Item(WithStasher(obj)))]
       ELSE Let({[st EXCEPT !.stashmap = r.objects,
                            !.dependencies = <<r.hash>> \o @] :
                 r \in {StashAndAddReference(st.stashmap, obj)}})

\* mutant: hashes of elements are written one by one whatever the Order is
StashDependencyInOrder(st, obj) ==
    IF st.mode = "Hash"
       THEN [st EXCEPT !.hasher = Append(@, U64Item(WithStasher(obj)))]
       ELSE Let({[st EXCEPT !.stashmap = r.objects,
                            !.dependencies = Append(@, r.hash)] :
                 r \in {StashAndAddReference(st.stashmap, obj)}})

\* mutant: the serializer lists the hash of a nested object without stashing it
StashDependencyUnstored(st, obj) ==
    IF st.mode = "Hash"
       THEN IF st.current_unordered_hash.some
               THEN [st EXCEPT !.current_unordered_hash.x = Xor(@, WithStasher(obj))]
               ELSE [st EXCEPT !.hasher = Append(@, U64Item(WithStasher(obj)))]
       ELSE [st EXCEPT !.dependencies = Append(@, WithStasher(obj))]

\* StasherBackend::stash_dependency
StashDependency(st, obj) ==
    IF st.mode = "Hash"
       THEN IF st.current_unordered_hash.some
               THEN [st EXCEPT !.current_unordered_hash.x = Xor(@, WithStasher(obj))]
               ELSE [st EXCEPT !.hasher = Append(@, U64Item(WithStasher(obj)))]
       ELSE Let({[st EXCEPT !.stashmap = r.objects,
                            !.dependencies = Append(@, r.hash)] :
                 r \in {StashAndAddReference(st.stashmap, obj)}})

\* ObjectHash::with_stasher (from_stashable)
WithStasher(obj) == StashObject(obj, NewHasher, 0).hasher

\* mutant: a repeat stash of known content leaves the count as it was
StashAndAddReferenceNoBump(objs, obj) ==
    Let({IF hash \in DOMAIN objs
            THEN [objects |-> objs, hash |-> hash]
            ELSE Let({[objects |-> Insert(st.stashmap, hash,
                                     StashedObject(st.data, 1, st.dependencies)),
                       hash |-> hash] :
                      st \in {StashObject(obj, NewSerializer(objs), 0)}}) :
         hash \in {WithStasher(obj)}})

\* mutant: a new entry lists itself among its dependencies
StashAndAddReferenceListsItself(objs, obj) ==
    Let({IF hash \in DOMAIN objs
            THEN [objects |-> SetRefCount(objs, hash,
                                 (objs[hash].reference_count + 1) % RefCountModulus),
                  hash |-> hash]
            ELSE Let({[objects |-> Insert(st.stashmap, hash,
                                     StashedObject(st.data, 1,
                                                   Append(st.dependencies, hash))),
                       hash |-> hash] :
                      st \in {StashObject(obj, NewSerializer(objs), 0)}}) :
         hash \in {WithStasher(obj)}})

\* mutant: known content is serialized again before its count is raised
StashAndAddReferenceReserializes(objs, obj) ==
    Let({Let({IF hash \in DOMAIN objs
                 THEN [objects |-> SetRefCount(st.stashmap, hash,
                                      (objs[hash].reference_count + 1) % RefCountModulus),
                       hash |-> hash]
                 ELSE [objects |-> Insert(st.stashmap, hash,
                                      StashedObject(st.data, 1, st.dependencies)),
                       hash |-> hash] :
              st \in {StashObject(obj, NewSerializer(objs), 0)}}) :
         hash \in {WithStasher(obj)}})

\* StashMap::stash_and_add_reference. The count is a u16: counts stay far
\* below RefCountModulus while at most MaxHandles handles are live.
StashAndAddReference(objs, obj) ==
    Let({IF hash \in DOMAIN objs
            THEN [objects |-> SetRefCount(objs, hash,
                                 (objs[hash].reference_count + 1) % RefCountModulus),
                  hash |-> hash]
            ELSE Let({[objects |-> Insert(st.stashmap, hash,
                                     StashedObject(st.data, 1, st.dependencies)),
                       hash |-> hash] :
                      st \in {StashObject(obj, NewSerializer(objs), 0)}}) :
         hash \in {WithStasher(obj)}})

\* mutant: a clone counts twice
AddReferenceTwice(objs, hash) ==
    IF hash \notin DOMAIN objs
       THEN [objects |-> objs, panic |-> TRUE]
       ELSE [objects |-> SetRefCount(objs, hash,
                            (objs[hash].reference_count + 2) % RefCountModulus),
             panic |-> FALSE]

\* mutant: the count is kept in an integer wider than 16 bits
AddReferenceWide(objs, hash) ==
    IF hash \notin DOMAIN objs
       THEN [objects |-> objs, panic |-> TRUE]
       ELSE [objects |-> SetRefCount(objs, hash, objs[hash].reference_count + 1),
             panic |-> FALSE]

\* StashMap::add_reference; unwrap() panics on a missing hash
AddReference(objs, hash) ==
    IF hash \notin DOMAIN objs
       THEN [objects |-> objs, panic |-> TRUE]
       ELSE [objects |-> SetRefCount(objs, hash,
                            (objs[hash].reference_count + 1) % RefCountModulus),
             panic |-> FALSE]

RECURSIVE DecreaseRefcountsRecursive(_, _), DecreaseDependencies(_, _, _)

\* mutant: an entry whose count reaches zero is not queued for removal
DecreaseKeepsDeadEntry(r, hash) ==
    IF r.panic \/ hash \notin DOMAIN r.objects
       THEN [r EXCEPT !.panic = TRUE]
    ELSE IF r.objects[hash].reference_count = 0 THEN [r EXCEPT !.panic = TRUE]
    ELSE IF r.objects[hash].reference_count - 1 = 0
       THEN DecreaseDependencies(
               [r EXCEPT !.objects = SetRefCount(@, hash, 0)],
               r.objects[hash].dependencies, 1)
       ELSE [r EXCEPT !.objects =
                SetRefCount(@, hash, r.objects[hash].reference_count - 1)]

\* mutant: the cascade is run from a list of pending hashes, one call deep
DecreaseRefcountsFromWorkList(r, hash) ==
    IF r.panic \/ hash \notin DOMAIN r.objects
       THEN [r EXCEPT !.panic = TRUE]
    ELSE IF r.objects[hash].reference_count = 0 THEN [r EXCEPT !.panic = TRUE]
    ELSE IF r.objects[hash].reference_count - 1 = 0
       THEN DecreaseDependencies(
               [r EXCEPT !.objects = SetRefCount(@, hash, 0),
                         !.objects_to_remove = Append(@, hash),
                         !.max_depth = 1],
               r.objects[hash].dependencies, 1)
       ELSE [r EXCEPT !.objects =
                SetRefCount(@, hash, r.objects[hash].reference_count - 1),
                      !.max_depth = 1]

\* mutant: an entry is taken out of the map as soon as its count is zero
DecreaseRemovesAtOnce(r, hash) ==
    IF r.panic \/ hash \notin DOMAIN r.objects
       THEN [r EXCEPT !.panic = TRUE]
    ELSE IF r.objects[hash].reference_count = 0 THEN [r EXCEPT !.panic = TRUE]
    ELSE IF r.objects[hash].reference_count - 1 = 0
       THEN DecreaseDependencies(
               [r EXCEPT !.objects = Remove(@, hash),
                         !.objects_to_remove = Append(@, hash),
                         !.max_depth = IF r.depth + 1 > @ THEN r.depth + 1 ELSE @],
               r.objects[hash].dependencies, 1)
       ELSE [r EXCEPT !.objects =
                SetRefCount(@, hash, r.objects[hash].reference_count - 1),
                      !.max_depth = IF r.depth + 1 > @ THEN r.depth + 1 ELSE @]

\* decrease_refcounts_recursive inside StashMap::remove_reference;
\* r = [objects, objects_to_remove, panic, depth, max_depth]; the debug
\* assertion refcount > 0 (in a build that has it; without it the count
\* wraps) and the unwrap() of a missing hash are fatal.
\* depth is the number of calls of this function that are on the call stack
\* and max_depth the highest it has been: the function calls itself from its
\* loop over the dependencies
DecreaseRefcountsRecursive(r, hash) ==
    IF r.panic \/ hash \notin DOMAIN r.objects
       THEN [r EXCEPT !.panic = TRUE]
    ELSE IF r.objects[hash].reference_count = 0 /\ r.debug_assertions
       THEN [r EXCEPT !.panic = TRUE]
    ELSE IF r.objects[hash].reference_count - 1 = 0
       THEN [DecreaseDependencies(
                [r EXCEPT !.objects = SetRefCount(@, hash, 0),
                          !.objects_to_remove = Append(@, hash),
                          !.depth = @ + 1,
                          !.max_depth = IF r.depth + 1 > @ THEN r.depth + 1 ELSE @],
                r.objects[hash].dependencies, 1)
             EXCEPT !.depth = r.depth]
       ELSE [r EXCEPT !.objects =
                SetRefCount(@, hash,
                    (r.objects[hash].reference_count - 1 + RefCountModulus)
                        % RefCountModulus),
                      !.max_depth = IF r.depth + 1 > @ THEN r.depth + 1 ELSE @]

\* mutant: the decrement does not descend into the dependencies
DecreaseDependenciesNone(r, deps, i) == r

\* for dependency in &object.dependencies { decrease_refcounts_recursive(..) }
DecreaseDependencies(r, deps, i) ==
    IF i > Len(deps) THEN r
    ELSE DecreaseDependencies(DecreaseRefcountsRecursive(r, deps[i]), deps, i + 1)

\* mutant: only the first queued entry is removed
RemoveAllOnlyFirst(r, i) ==
    IF r.objects_to_remove = <<>> \/ r.panic THEN r
    ELSE [r EXCEPT !.objects = Remove(@, r.objects_to_remove[1])]

RECURSIVE RemoveAll(_, _)
\* for hash in objects_to_remove { self.objects.remove(&hash).unwrap(); }
RemoveAll(r, i) ==
    IF i > Len(r.objects_to_remove) \/ r.panic THEN r
    ELSE IF r.objects_to_remove[i] \notin DOMAIN r.objects
       THEN [r EXCEPT !.panic = TRUE]
    ELSE RemoveAll([r EXCEPT !.objects = Remove(@, r.objects_to_remove[i])], i + 1)

\* mutant: the entry is removed whatever its count
RemoveReferenceEager(objs, hash) ==
    [objects |-> Remove(objs, hash), objects_to_remove |-> <<hash>>,
     panic |-> hash \notin DOMAIN objs, depth |-> 0, max_depth |-> 1,
     debug_assertions |-> TRUE]

\* StashMap::remove_reference in a build with or without debug assertions
\* and overflow checks
RemoveReferenceBuilt(objs, hash, debug_assertions) ==
    RemoveAll(DecreaseRefcountsRecursive(
                 [objects |-> objs, objects_to_remove |-> <<>>, panic |-> FALSE,
                  depth |-> 0, max_depth |-> 0,
                  debug_assertions |-> debug_assertions],
                 hash), 1)

\* StashMap::remove_reference; with counts of one and more the two builds
\* do the same
RemoveReference(objs, hash) == RemoveReferenceBuilt(objs, hash, TRUE)

\* -------------------------------------------------------------- unstasher
\* UnstasherBackend::from_stashed_object (the stashmap is passed alongside)
FromStashedObject(entry) ==
    [bytes |-> entry.bytes, dependencies |-> entry.dependencies]

\* UnstasherBackend::is_finished
IsFinished(u) == u.bytes = <<>> /\ u.dependencies = <<>>

\* a read result: res is "Ok", an UnstashError, or "Panic"
Ret(res, u, val) == [res |-> res, u |-> u, val |-> val]

\* UnstasherBackend::read_byte
ReadByte(u) ==
    IF u.bytes = <<>> THEN Ret("OutOfData", u, 0)
    ELSE Ret("Ok", [u EXCEPT !.bytes = Tail(@)], Head(u.bytes))

\* UnstasherBackend::read_value_type
ReadValueType(u) ==
    Let({IF b.res # "Ok" THEN [b EXCEPT !.val = <<"", 0>>]
         ELSE Let({Ret(t[1], b.u, <<t[2], t[3]>>) : t \in {ValueTypeFromByte(b.val)}}) :
         b \in {ReadByte(u)}})

\* mutant: dependencies are taken from the back of the list
ReadDependencyFromBack(u) ==
    IF u.dependencies = <<>> THEN Ret("Corrupted", u, <<>>)
    ELSE Ret("Ok",
             [u EXCEPT !.dependencies = SubSeq(@, 1, Len(@) - 1)],
             u.dependencies[Len(u.dependencies)])

\* mutant: an exhausted dependency list is reported as a short stream
ReadDependencyOutOfData(u) ==
    IF u.dependencies = <<>> THEN Ret("OutOfData", u, <<>>)
    ELSE Ret("Ok", [u EXCEPT !.dependencies = Tail(@)], Head(u.dependencies))

\* UnstasherBackend::read_dependency
ReadDependency(u) ==
    IF u.dependencies = <<>> THEN Ret("Corrupted", u, <<>>)
    ELSE Ret("Ok", [u EXCEPT !.dependencies = Tail(@)], Head(u.dependencies))

\* UnstasherBackend::reset_on_error
ResetOnError(original, r) ==
    IF r.res \notin {"Ok", "Panic"} THEN [r EXCEPT !.u = original] ELSE r

\* UnstasherBackend::read_primitive::<u8>; read_raw_bytes_from unwraps
ReadPrimitiveU8(u) ==
    ResetOnError(u,
        Let({IF t.res # "Ok" THEN [t EXCEPT !.val = 0]
             ELSE IF t.val # <<"Primitive", TagU8>> THEN Ret("WrongValueType", t.u, 0)
             ELSE IF t.u.bytes = <<>> THEN Ret("Panic", t.u, 0)
             ELSE Ret("Ok", [t.u EXCEPT !.bytes = Tail(@)], Head(t.u.bytes)) :
             t \in {ReadValueType(u)}}))

RECURSIVE UnstashObject(_, _, _, _, _), ObjectProxy(_, _, _), StashMapUnstash(_, _, _)

\* impl Unstashable for the type ty: Ok(Node(unstasher.u8()?, [unstasher.object()?, ...]))
UnstashObject(objs, ty, u, acc, i) ==
    IF i > Len(ty.kids) THEN Ret("Ok", u, acc)
    ELSE Let({IF k.res # "Ok" THEN [k EXCEPT !.val = acc]
              ELSE UnstashObject(objs, ty, k.u,
                      IF i = 0 THEN Node(k.val, <<>>)
                               ELSE [acc EXCEPT !.kids = Append(@, k.val)],
                      i + 1) :
              k \in {IF i > 0 THEN ObjectProxy(objs, u, ty.kids[i])
                     ELSE IF ty.v = NoPrim THEN Ret("Ok", u, NoPrim)
                     ELSE ReadPrimitiveU8(u)}})

\* UnstasherBackend::object_proxy with f = T::unstash (Unstasher::object)
ObjectProxy(objs, u, ty) ==
    ResetOnError(u,
        Let({IF t.res # "Ok" THEN [t EXCEPT !.val = ty]
             ELSE IF t.val[1] # "StashedObject" THEN Ret("WrongValueType", t.u, ty)
             ELSE Let({IF d.res # "Ok" THEN [d EXCEPT !.val = ty]
                       ELSE Let({Ret(r.res, d.u, r.val) :
                                 r \in {StashMapUnstash(objs, d.val, ty)}}) :
                       d \in {ReadDependency(t.u)}}) :
             t \in {ReadValueType(u)}}))

\* mutant: unstash does not ask whether the reader finished the entry
StashMapUnstashUnchecked(objs, hash, ty) ==
    IF hash \notin DOMAIN objs THEN [res |-> "Panic", val |-> ty]
    ELSE Let({IF r.res # "Ok" THEN [res |-> r.res, val |-> ty]
              ELSE [res |-> "Ok", val |-> r.val] :
              r \in {UnstashObject(objs, ty, FromStashedObject(objs[hash]), ty, 0)}})

\* mutant: a hash without an entry is reported as an error of the read
StashMapUnstashMissingIsError(objs, hash, ty) ==
    IF hash \notin DOMAIN objs THEN [res |-> "Corrupted", val |-> ty]
    ELSE Let({IF r.res # "Ok" THEN [res |-> r.res, val |-> ty]
              ELSE IF ~IsFinished(r.u) THEN [res |-> "NotFinished", val |-> ty]
              ELSE [res |-> "Ok", val |-> r.val] :
              r \in {UnstashObject(objs, ty, FromStashedObject(objs[hash]), ty, 0)}})

\* StashMap::unstash with f = T::unstash; unwrap() panics on a missing hash
StashMapUnstash(objs, hash, ty) ==
    IF hash \notin DOMAIN objs THEN [res |-> "Panic", val |-> ty]
    ELSE Let({IF r.res # "Ok" THEN [res |-> r.res, val |-> ty]
              ELSE IF ~IsFinished(r.u) THEN [res |-> "NotFinished", val |-> ty]
              ELSE [res |-> "Ok", val |-> r.val] :
              r \in {UnstashObject(objs, ty, FromStashedObject(objs[hash]), ty, 0)}})

\* mutant: the value read is assigned in the Validate pass as well
ReadPrimitiveInplaceAlwaysWrites(u, phase, x) ==
    Let({IF y.res # "Ok" THEN [y EXCEPT !.val = x] ELSE y :
         y \in {ReadPrimitiveU8(u)}})

\* InplaceUnstasher::read_primitive_inplace::<u8>
ReadPrimitiveInplace(u, phase, x) ==
    Let({IF y.res # "Ok" \/ phase # "Write" THEN [y EXCEPT !.val = x] ELSE y :
         y \in {ReadPrimitiveU8(u)}})

RECURSIVE UnstashInplaceObject(_, _, _, _, _), ObjectInplace(_, _, _, _),
          StashMapUnstashInplace(_, _, _, _)

\* impl UnstashableInplace: unstasher.u8_inplace(&mut self.v)?; then
\* unstasher.object_inplace(&mut kid)? for each kid; val is the object as the
\* reads so far have left it
UnstashInplaceObject(objs, obj, u, phase, i) ==
    IF i > Len(obj.kids) THEN Ret("Ok", u, obj)
    ELSE Let({IF k.res # "Ok" THEN k
              ELSE UnstashInplaceObject(objs, k.val, k.u, phase, i + 1) :
              k \in {Let({[p EXCEPT !.val = IF i = 0 THEN [obj EXCEPT !.v = p.val]
                                            ELSE [obj EXCEPT !.kids[i] = p.val]] :
                          p \in {IF i > 0 THEN ObjectInplace(objs, u, obj.kids[i], phase)
                                 ELSE IF obj.v = NoPrim THEN Ret("Ok", u, NoPrim)
                                 ELSE ReadPrimitiveInplace(u, phase, obj.v)}})}})

\* mutant: nested objects are always read in the Validate phase
ObjectInplaceValidateOnly(objs, u, object, phase) ==
    ResetOnError(u,
        Let({IF t.res # "Ok" THEN [t EXCEPT !.val = object]
             ELSE IF t.val[1] # "StashedObject" THEN Ret("WrongValueType", t.u, object)
             ELSE Let({IF d.res # "Ok" THEN [d EXCEPT !.val = object]
                       ELSE Let({Ret(r.res, d.u, r.val) :
                                 r \in {StashMapUnstashInplace(objs, d.val, "Validate", object)}}) :
                       d \in {ReadDependency(t.u)}}) :
             t \in {ReadValueType(u)}}))

\* mutant: nested objects are always read in the Write phase
ObjectInplaceAlwaysWrites(objs, u, object, phase) ==
    ResetOnError(u,
        Let({IF t.res # "Ok" THEN [t EXCEPT !.val = object]
             ELSE IF t.val[1] # "StashedObject" THEN Ret("WrongValueType", t.u, object)
             ELSE Let({IF d.res # "Ok" THEN [d EXCEPT !.val = object]
                       ELSE Let({Ret(r.res, d.u, r.val) :
                                 r \in {StashMapUnstashInplace(objs, d.val, "Write", object)}}) :
                       d \in {ReadDependency(t.u)}}) :
             t \in {ReadValueType(u)}}))

\* UnstasherBackend::object_inplace (InplaceUnstasher::object_inplace passes
\* its own phase)
ObjectInplace(objs, u, object, phase) ==
    ResetOnError(u,
        Let({IF t.res # "Ok" THEN [t EXCEPT !.val = object]
             ELSE IF t.val[1] # "StashedObject" THEN Ret("WrongValueType", t.u, object)
             ELSE Let({IF d.res # "Ok" THEN [d EXCEPT !.val = object]
                       ELSE Let({Ret(r.res, d.u, r.val) :
                                 r \in {StashMapUnstashInplace(objs, d.val, phase, object)}}) :
                       d \in {ReadDependency(t.u)}}) :
             t \in {ReadValueType(u)}}))

\* StashMap::unstash_inplace with f = |u| object.unstash_inplace(u)
StashMapUnstashInplace(objs, hash, phase, object) ==
    IF hash \notin DOMAIN objs THEN [res |-> "Panic", val |-> object]
    ELSE Let({IF r.res # "Ok" THEN [res |-> r.res, val |-> r.val]
              ELSE IF ~IsFinished(r.u) THEN [res |-> "NotFinished", val |-> r.val]
              ELSE [res |-> "Ok", val |-> r.val] :
              r \in {UnstashInplaceObject(objs, object,
                        FromStashedObject(objs[hash]), phase, 0)}})

\* Stash::unstash_inplace: the Validate pass, `?`, then the Write pass;
\* phase is the last pass that ran
StashUnstashInplace(objs, hash, object) ==
    Let({IF v.res # "Ok" THEN [res |-> v.res, val |-> v.val, phase |-> "Validate"]
         ELSE Let({[res |-> w.res, val |-> w.val, phase |-> "Write"] :
                   w \in {StashMapUnstashInplace(objs, hash, "Write", v.val)}}) :
         v \in {StashMapUnstashInplace(objs, hash, "Validate", object)}})

\* ------------------------------------------- arrays, strings and sequences
\* u32::from_be_bytes
FromBeBytes(b) == ((b[1] * 256 + b[2]) * 256 + b[3]) * 256 + b[4]

\* UnstasherBackend::read_raw_bytes
ReadRawBytes(u, len) ==
    IF Len(u.bytes) < len THEN Ret("Corrupted", u, <<>>)
    ELSE Ret("Ok", [u EXCEPT !.bytes = SubSeq(@, len + 1, Len(@))],
             SubSeq(u.bytes, 1, len))

\* UnstasherBackend::read_value_length
ReadValueLength(u) ==
    IF Len(u.bytes) < 4 THEN Ret("Corrupted", u, 0)
    ELSE Ret("Ok", [u EXCEPT !.bytes = SubSeq(@, 5, Len(@))],
             FromBeBytes(SubSeq(u.bytes, 1, 4)))

\* the tag and the length that open an array, a string or an array of objects
ReadTagAndLength(u, category, nibble) ==
    Let({IF t.res # "Ok" THEN [t EXCEPT !.val = 0]
         ELSE IF t.val # <<category, nibble>> THEN Ret("WrongValueType", t.u, 0)
         ELSE ReadValueLength(t.u) :
         t \in {ReadValueType(u)}})

\* UnstasherBackend::read_primitive_array_iter::<u8> and
\* read_primitive_array_vec::<u8>, which collects it
ReadPrimitiveArrayU8(u) ==
    ResetOnError(u,
        Let({IF n.res # "Ok" THEN [n EXCEPT !.val = <<>>]
             ELSE IF Len(n.u.bytes) < n.val * 1 THEN Ret("Corrupted", n.u, <<>>)
             ELSE Ret("Ok", [n.u EXCEPT !.bytes = SubSeq(@, n.val + 1, Len(@))],
                      SubSeq(n.u.bytes, 1, n.val)) :
             n \in {ReadTagAndLength(u, "Array", TagU8)}}))

\* std::str::from_utf8 on the bytes the model draws: ASCII bytes stand for
\* themselves and 0xFF starts no UTF-8 sequence
FromUtf8(bytes) ==
    IF \A i \in DOMAIN bytes : bytes[i] < 128 THEN <<"Ok", bytes>>
    ELSE <<"Err", <<>>>>

\* UnstasherBackend::string
String(u) ==
    ResetOnError(u,
        Let({IF n.res # "Ok" THEN [n EXCEPT !.val = <<>>]
             ELSE Let({IF b.res # "Ok" THEN b
                       ELSE IF FromUtf8(b.val)[1] # "Ok" THEN Ret("Corrupted", b.u, <<>>)
                       ELSE Ret("Ok", b.u, FromUtf8(b.val)[2]) :
                       b \in {ReadRawBytes(n.u, n.val)}}) :
             n \in {ReadTagAndLength(u, "String", 0)}}))

\* UnstasherBackend::read_array_of_object_iter: the hashes the iterator holds
ReadArrayOfObjectIter(u) ==
    ResetOnError(u,
        Let({IF n.res # "Ok" THEN [n EXCEPT !.val = <<>>]
             ELSE IF Len(n.u.dependencies) < n.val THEN Ret("Corrupted", n.u, <<>>)
             ELSE Ret("Ok",
                      [n.u EXCEPT !.dependencies = SubSeq(@, n.val + 1, Len(@))],
                      SubSeq(n.u.dependencies, 1, n.val)) :
             n \in {ReadTagAndLength(u, "ArrayOfObjects", 0)}}))

RECURSIVE UnstashEach(_, _, _, _, _)

\* ObjectIterator::next for each hash in turn, until the first failure:
\* collect::<Result<Vec<T>, _>>() and the loop of read_array_of_object_proxies
UnstashEach(objs, hashes, ty, i, acc) ==
    IF i > Len(hashes) THEN [res |-> "Ok", val |-> acc]
    ELSE Let({IF r.res # "Ok" THEN [res |-> r.res, val |-> <<>>]
              ELSE UnstashEach(objs, hashes, ty, i + 1, Append(acc, r.val)) :
              r \in {StashMapUnstash(objs, hashes[i], ty)}})

\* UnstasherBackend::read_array_of_object_vec: the iterator is made under
\* reset_on_error, the elements are collected after it has returned
ReadArrayOfObjectVec(objs, u, ty) ==
    Let({IF it.res # "Ok" THEN it
         ELSE Let({Ret(c.res, it.u, c.val) :
                   c \in {UnstashEach(objs, it.val, ty, 1, <<>>)}}) :
         it \in {ReadArrayOfObjectIter(u)}})

\* UnstasherBackend::read_array_of_object_proxies with f the reader of ty
ReadArrayOfObjectProxies(objs, u, ty) ==
    ResetOnError(u,
        Let({IF n.res # "Ok" THEN [n EXCEPT !.val = <<>>]
             ELSE IF Len(n.u.dependencies) < n.val THEN Ret("Corrupted", n.u, <<>>)
             ELSE Let({Ret(c.res,
                           [n.u EXCEPT !.dependencies = SubSeq(@, n.val + 1, Len(@))],
                           c.val) :
                       c \in {UnstashEach(objs, SubSeq(n.u.dependencies, 1, n.val),
                                          ty, 1, <<>>)}}) :
             n \in {ReadTagAndLength(u, "ArrayOfObjects", 0)}}))

\* mutant: the Write pass goes on from where the Validate pass ended
ObjectInplaceWithoutRewind(objs, u, object) ==
    Let({IF v.res # "Ok"
            THEN [res |-> v.res, u |-> v.u, val |-> v.val, phase |-> "Validate"]
         ELSE Let({[res |-> w.res, u |-> w.u, val |-> w.val, phase |-> "Write"] :
                   w \in {ObjectInplace(objs, v.u, v.val, "Write")}}) :
         v \in {ObjectInplace(objs, u, object, "Validate")}})

\* Unstasher::object_inplace_with_context: the Validate pass, `?`, the
\* backend put back, then the Write pass; phase is the last pass that ran
ObjectInplaceWithContext(objs, u, object) ==
    Let({IF v.res # "Ok"
            THEN [res |-> v.res, u |-> v.u, val |-> v.val, phase |-> "Validate"]
         ELSE Let({[res |-> w.res, u |-> w.u, val |-> w.val, phase |-> "Write"] :
                   w \in {ObjectInplace(objs, u, v.val, "Write")}}) :
         v \in {ObjectInplace(objs, u, object, "Validate")}})

\* UnstasherBackend::peek_byte
PeekByte(u) ==
    IF u.bytes = <<>> THEN Ret("OutOfData", u, 0)
    ELSE Ret("Ok", u, Head(u.bytes))

\* UnstasherBackend::peek_bytes
PeekBytes(u, len) ==
    IF Len(u.bytes) < len THEN Ret("OutOfData", u, <<>>)
    ELSE Ret("Ok", u, SubSeq(u.bytes, 1, len))

\* mutant: the byte that was looked at is taken
PeekTypeAdvances(u) ==
    Let({IF b.res # "Ok" THEN [b EXCEPT !.val = <<"", 0>>]
         ELSE Let({Ret(t[1], [u EXCEPT !.bytes = Tail(@)], <<t[2], t[3]>>) :
                   t \in {ValueTypeFromByte(b.val)}}) :
         b \in {PeekByte(u)}})

\* UnstasherBackend::peek_type
PeekType(u) ==
    Let({IF b.res # "Ok" THEN [b EXCEPT !.val = <<"", 0>>]
         ELSE Let({Ret(t[1], u, <<t[2], t[3]>>) : t \in {ValueTypeFromByte(b.val)}}) :
         b \in {PeekByte(u)}})

\* UnstasherBackend::peek_length: the five bytes are asked for before the
\* tag is looked at
PeekLength(u) ==
    Let({IF b.res # "Ok" THEN [b EXCEPT !.val = 0]
         ELSE Let({IF t[1] # "Ok" THEN Ret(t[1], u, 0)
                   ELSE IF t[2] \notin {"Array", "String", "ArrayOfObjects"}
                        THEN Ret("WrongValueType", u, 0)
                   ELSE Ret("Ok", u, FromBeBytes(SubSeq(b.val, 2, 5))) :
                   t \in {ValueTypeFromByte(b.val[1])}}) :
         b \in {PeekBytes(u, 5)}})

\* ------------------------------------------------------------------ state
VARIABLES
    objects,    \* StashMap.objects of the one Stash
    handles,    \* live StashHandles: hash -> number of handles holding it
    result,     \* what the last completed operation returned
    panicked,   \* a fatal fault ended the program
    backend,    \* the UnstasherBackend of the Unstasher a reader is handed
    cache,      \* a HashCache: the wrapped value and its two entries
    borrows     \* the Ref and RefMut guards of Stash.map that running operations hold

vars == <<objects, handles, result, panicked, backend, cache, borrows>>

\* Option<HashCacheEntry>
NoEntry == [some |-> FALSE, context_hash |-> <<>>, object_hash |-> <<>>]

HashCacheEntry(context_hash, object_hash) ==
    [some |-> TRUE, context_hash |-> context_hash, object_hash |-> object_hash]

\* HashCache::new
HashCacheNew(value) == [value |-> value, entries |-> <<NoEntry, NoEntry>>]

NoBackend == [bytes |-> <<>>, dependencies |-> <<>>]

NumHandles(hs, h) == IF h \in DOMAIN hs THEN hs[h] ELSE 0

RECURSIVE SumOver(_, _)
SumOver(f, S) ==
    IF S = {} THEN 0
    ELSE LET e == CHOOSE e \in S : TRUE IN f[e] + SumOver(f, S \ {e})

TotalHandles == SumOver(handles, DOMAIN handles)

AddHandle(hs, h) ==
    [k \in DOMAIN hs \cup {h} |-> NumHandles(hs, k) + (IF k = h THEN 1 ELSE 0)]

DropHandle(hs, h) ==
    [k \in {j \in DOMAIN hs : j # h \/ hs[j] > 1} |->
        hs[k] - (IF k = h THEN 1 ELSE 0)]

Init ==
    /\ objects = StashMapNew
    /\ handles = <<>>
    /\ result = [op |-> "new", res |-> "Ok"]
    /\ panicked = FALSE
    /\ backend = NoBackend
    /\ cache = HashCacheNew(Node(0, <<>>))
    /\ borrows = <<>>

\* Stash::stash
Stash(x) ==
    /\ ~panicked
    /\ TotalHandles < MaxHandles
    /\ \E r \in {StashAndAddReference(objects, x)} :
           /\ objects' = r.objects
           /\ handles' = AddHandle(handles, r.hash)
           /\ result' = [op |-> "stash", res |-> "Ok", hash |-> r.hash, obj |-> x]
    /\ UNCHANGED <<borrows, panicked, backend, cache>>

\* impl Clone for StashHandle
Clone(h) ==
    /\ ~panicked
    /\ TotalHandles < MaxHandles
    /\ \E r \in {AddReference(objects, h)} :
           /\ objects' = r.objects
           /\ panicked' = r.panic
           /\ handles' = IF r.panic THEN handles ELSE AddHandle(handles, h)
           /\ result' = [op |-> "clone", res |-> IF r.panic THEN "Panic" ELSE "Ok",
                         hash |-> h]
    /\ UNCHANGED <<borrows, backend, cache>>

\* impl Drop for StashHandle
Drop(h) ==
    /\ ~panicked
    /\ \E r \in {RemoveReference(objects, h)} :
           /\ objects' = r.objects
           /\ panicked' = r.panic
           /\ handles' = DropHandle(handles, h)
           /\ result' = [op |-> "drop", res |-> IF r.panic THEN "Panic" ELSE "Ok",
                         hash |-> h, depth |-> r.max_depth,
                         queued |-> r.objects_to_remove]
    /\ UNCHANGED <<borrows, backend, cache>>

\* mutant: unstashing takes a reference to the entry, as a clone does
UnstashAddsReference(h, ty) ==
    /\ ~panicked
    /\ \E r \in {StashMapUnstash(objects, h, ty)} :
           /\ result' = [op |-> "unstash", res |-> r.res, hash |-> h, ty |-> ty,
                         out |-> IF r.res = "Ok" THEN WithStasher(r.val) ELSE <<>>]
           /\ panicked' = (r.res = "Panic")
    /\ objects' = AddReference(objects, h).objects
    /\ UNCHANGED <<borrows, handles, backend, cache>>

\* Stash::unstash::<T> through a handle to h. ty is the Unstashable
\* implementation that runs: one that pairs with the stash that wrote the
\* entry, or one that does not (a mismatched implementation, unstash_proxy)
Unstash(h, ty) ==
    /\ ~panicked
    /\ \E r \in {StashMapUnstash(objects, h, ty)} :
           /\ result' = [op |-> "unstash", res |-> r.res, hash |-> h, ty |-> ty,
                         out |-> IF r.res = "Ok" THEN WithStasher(r.val) ELSE <<>>]
           /\ panicked' = (r.res = "Panic")
    /\ UNCHANGED <<borrows, objects, handles, backend, cache>>

\* Stash::unstash_inplace through a handle to h, into a user object whose
\* UnstashableInplace implementation pairs with the entry or does not
UnstashInplace(h, object) ==
    /\ ~panicked
    /\ \E r \in {StashUnstashInplace(objects, h, object)} :
           /\ result' = [op |-> "unstash_inplace", res |-> r.res, hash |-> h,
                         phase |-> r.phase, before |-> object, after |-> r.val]
           /\ panicked' = (r.res = "Panic")
    /\ UNCHANGED <<borrows, objects, handles, backend, cache>>

Next ==
    \/ \E x \in Universe : Stash(x)
    \/ \E h \in DOMAIN handles : Clone(h)
    \/ \E h \in DOMAIN handles : Drop(h)
    \/ \E h \in DOMAIN handles, ty \in Types : Unstash(h, ty)
    \/ \E h \in DOMAIN handles, object \in Targets : UnstashInplace(h, object)

Spec == Init /\ [][Next]_vars

\* ------------------------------------------------- handles of another Stash
\* A handle made by another Stash is handed to this one. A StashHandle
\* carries its hash and its own map; Stash::unstash and Stash::unstash_inplace
\* take the hash from the handle and look it up in the map of the Stash they
\* are called on.

\* let other = Stash::new(); let handle = other.stash(&x); stash.unstash(&handle)
UnstashForeign(x, ty) ==
    /\ ~panicked
    /\ \E hash \in {StashAndAddReference(StashMapNew, x).hash} :
         \E r \in {StashMapUnstash(objects, hash, ty)} :
           /\ result' = [op |-> "unstash_foreign", res |-> r.res, hash |-> hash,
                         known |-> hash \in DOMAIN objects]
           /\ panicked' = (r.res = "Panic")
    /\ UNCHANGED <<borrows, objects, handles, backend, cache>>

\* the same with stash.unstash_inplace(&handle, &mut object)
UnstashInplaceForeign(x, object) ==
    /\ ~panicked
    /\ \E hash \in {StashAndAddReference(StashMapNew, x).hash} :
         \E r \in {StashUnstashInplace(objects, hash, object)} :
           /\ result' = [op |-> "unstash_inplace_foreign", res |-> r.res,
                         hash |-> hash, known |-> hash \in DOMAIN objects]
           /\ panicked' = (r.res = "Panic")
    /\ UNCHANGED <<borrows, objects, handles, backend, cache>>

ForeignNext ==
    \/ \E x \in Universe : Stash(x)
    \/ \E h \in DOMAIN handles : Drop(h)
    \/ \E x \in Universe, ty \in Types : UnstashForeign(x, ty)
    \/ \E x \in Universe, object \in Targets : UnstashInplaceForeign(x, object)

ForeignSpec == Init /\ [][ForeignNext]_vars

\* ---------------------------------------------------------- reading alone
\* The read operations of an Unstasher, applied one after another to a
\* backend over a byte stream and a dependency list: what the serializer
\* writes for a sequence of values, whole or cut short, and bytes that are
\* no tag. The objects the dependencies name are stored.

\* u32::to_be_bytes for the lengths the model draws
ToBeBytes(n) == <<0, 0, 0, n>>

Repeat(b, n) == [i \in 1..n |-> b]

\* what Stasher::u8, array_of_u8_slice, string, object and
\* array_of_objects_slice append to the bytes; <<255>> is no tag
Items ==
    {<<TagU8, 1>>, <<TagStashedObject>>, <<255>>}
    \cup {<<TagArrayU8>> \o ToBeBytes(n) \o Repeat(1, n) : n \in 0..MaxCount}
    \cup {<<TagString>> \o ToBeBytes(n) \o Repeat(97, n) : n \in 0..MaxCount}
    \cup {<<TagString>> \o ToBeBytes(1) \o <<255>>}
    \cup {<<TagArrayOfObjects>> \o ToBeBytes(n) : n \in 0..MaxCount}

RECURSIVE Complete(_)
\* sequences of whole items, at most n bytes long
Complete(n) ==
    {<<>>} \cup UNION {{it \o rest : rest \in Complete(n - Len(it))} :
                        it \in {i \in Items : Len(i) <= n}}

\* the streams: every prefix of a sequence of whole items
Streams == UNION {{SubSeq(b, 1, k) : k \in 0..Len(b)} : b \in Complete(MaxLen)}

\* a store that holds a Leaf and a Wrap of it
ReadStore ==
    StashAndAddReference(
        StashAndAddReference(StashMapNew, Node(0, <<>>)).objects,
        Node(0, <<Node(0, <<>>)>>)).objects

DependencyLists == UNION {[1..n -> DOMAIN ReadStore] : n \in 0..MaxDeps}

\* the types whose Unstashable implementation reads an object or an element
ElementTypes == {LeafT, WrapT}

ReadInit ==
    /\ objects = ReadStore
    /\ handles = [h \in DOMAIN ReadStore |-> 1]
    /\ result = [op |-> "new", res |-> "Ok"]
    /\ panicked = FALSE
    /\ backend \in [bytes : Streams, dependencies : DependencyLists]
    /\ cache = HashCacheNew(Node(0, <<>>))
    /\ borrows = <<>>

\* what a read operation that returned r leaves behind: its result, the
\* value it returned and the backend it was called on
ReadResult(op, r) ==
    [op |-> op, res |-> r.res, val |-> r.val, before |-> backend]

\* Unstasher::u8
U8 ==
    /\ ~panicked
    /\ \E r \in {ReadPrimitiveU8(backend)} :
           /\ backend' = r.u
           /\ result' = ReadResult("u8", r)
           /\ panicked' = (r.res = "Panic")
    /\ UNCHANGED <<borrows, objects, handles, cache>>

\* Unstasher::array_of_u8_vec
ArrayOfU8Vec ==
    /\ ~panicked
    /\ \E r \in {ReadPrimitiveArrayU8(backend)} :
           /\ backend' = r.u
           /\ result' = ReadResult("array_of_u8_vec", r)
           /\ panicked' = (r.res = "Panic")
    /\ UNCHANGED <<borrows, objects, handles, cache>>

\* Unstasher::string
UnstasherString ==
    /\ ~panicked
    /\ \E r \in {String(backend)} :
           /\ backend' = r.u
           /\ result' = ReadResult("string", r)
           /\ panicked' = (r.res = "Panic")
    /\ UNCHANGED <<borrows, objects, handles, cache>>

\* Unstasher::object::<T>
Object(ty) ==
    /\ ~panicked
    /\ \E r \in {ObjectProxy(objects, backend, ty)} :
           /\ backend' = r.u
           /\ result' = ReadResult("object", r)
           /\ panicked' = (r.res = "Panic")
    /\ UNCHANGED <<borrows, objects, handles, cache>>

\* Unstasher::array_of_objects_vec::<T>
ArrayOfObjectsVec(ty) ==
    /\ ~panicked
    /\ \E r \in {ReadArrayOfObjectVec(objects, backend, ty)} :
           /\ backend' = r.u
           /\ result' = ReadResult("array_of_objects_vec", r)
           /\ panicked' = (r.res = "Panic")
    /\ UNCHANGED <<borrows, objects, handles, cache>>

\* Unstasher::array_of_proxy_objects with a closure that reads as ty does
ArrayOfProxyObjects(ty) ==
    /\ ~panicked
    /\ \E r \in {ReadArrayOfObjectProxies(objects, backend, ty)} :
           /\ backend' = r.u
           /\ result' = ReadResult("array_of_proxy_objects", r)
           /\ panicked' = (r.res = "Panic")
    /\ UNCHANGED <<borrows, objects, handles, cache>>

\* the objects a reader restores in place: none of their fields is as stored
InplaceTargets == {Node(1, <<>>), Node(1, <<Node(1, <<>>)>>)}

\* Unstasher::object_inplace
UnstasherObjectInplace(object) ==
    /\ ~panicked
    /\ \E r \in {ObjectInplaceWithContext(objects, backend, object)} :
           /\ backend' = r.u
           /\ result' = [op |-> "unstasher_object_inplace", res |-> r.res,
                         val |-> r.val, before |-> backend,
                         target |-> object, phase |-> r.phase]
           /\ panicked' = (r.res = "Panic")
    /\ UNCHANGED <<borrows, objects, handles, cache>>

\* Unstasher::peek_type
UnstasherPeekType ==
    /\ ~panicked
    /\ \E r \in {PeekType(backend)} :
           /\ backend' = r.u
           /\ result' = ReadResult("peek_type", r)
           /\ panicked' = (r.res = "Panic")
    /\ UNCHANGED <<borrows, objects, handles, cache>>

\* Unstasher::peek_length
UnstasherPeekLength ==
    /\ ~panicked
    /\ \E r \in {PeekLength(backend)} :
           /\ backend' = r.u
           /\ result' = ReadResult("peek_length", r)
           /\ panicked' = (r.res = "Panic")
    /\ UNCHANGED <<borrows, objects, handles, cache>>

ReadNext ==
    \/ U8
    \/ ArrayOfU8Vec
    \/ UnstasherString
    \/ \E ty \in ElementTypes : Object(ty)
    \/ \E ty \in ElementTypes : ArrayOfObjectsVec(ty)
    \/ \E ty \in ElementTypes : ArrayOfProxyObjects(ty)
    \/ \E object \in InplaceTargets : UnstasherObjectInplace(object)
    \/ UnstasherPeekType
    \/ UnstasherPeekLength

ReadSpec == ReadInit /\ [][ReadNext]_vars

\* ------------------------------------------------------- value tags alone
\* the value types of valuetypes.rs: <<category, primitive nibble>>
ValueTypes ==
    {<<c, n>> : c \in {"Primitive", "Array"}, n \in 1..11}
    \cup {<<"String", 0>>, <<"StashedObject", 0>>}

\* ValueType::to_byte
ToByte(v) ==
    CASE v[1] = "Primitive" -> 0 + v[2]
      [] v[1] = "Array" -> 16 + v[2]
      [] v[1] = "String" -> TagString
      [] OTHER -> TagStashedObject

Bytes == 0..255

TagInit ==
    /\ objects = StashMapNew
    /\ handles = <<>>
    /\ result \in [op : {"byte"}, byte : Bytes]
    /\ panicked = FALSE
    /\ backend = NoBackend
    /\ cache = HashCacheNew(Node(0, <<>>))
    /\ borrows = <<>>

\* ValueType::from_byte(byte)
CallFromByte ==
    /\ result.op = "byte"
    /\ result' = [op |-> "from_byte", byte |-> result.byte,
                  ret |-> FromByte(result.byte)]
    /\ UNCHANGED <<borrows, objects, handles, panicked, backend, cache>>

TagNext == CallFromByte

TagSpec == TagInit /\ [][TagNext]_vars

\* ---------------------------------------------------- arrays of objects
\* One Holder is hashed, or stashed into an empty store.

\* the objects that are nested
Elements == {x \in Universe : TypeOf(x) \in {LeafT, WrapT}}

SeqsUpTo(S, n) == UNION {[1..k -> S] : k \in 0..n}

Holders ==
    {Holder(kids, order, elems) :
        kids \in SeqsUpTo(Elements, 1), order \in Orders,
        elems \in SeqsUpTo(Elements, MaxElems)}

ArrayInit ==
    /\ objects = StashMapNew
    /\ handles = <<>>
    /\ result \in [op : {"input"}, obj : Holders]
    /\ panicked = FALSE
    /\ backend = NoBackend
    /\ cache = HashCacheNew(Node(0, <<>>))
    /\ borrows = <<>>

\* mutant: the hash is taken by stashing the object
FromStashableThroughStore ==
    /\ result.op = "input"
    /\ \E r \in {StashAndAddReference(objects, result.obj)} :
           /\ objects' = r.objects
           /\ result' = [op |-> "hash", obj |-> result.obj, hash |-> r.hash]
    /\ UNCHANGED <<borrows, handles, panicked, backend, cache>>

\* ObjectHash::from_stashable(&obj)
FromStashable ==
    /\ result.op = "input"
    /\ result' = [op |-> "hash", obj |-> result.obj, hash |-> WithStasher(result.obj)]
    /\ UNCHANGED <<borrows, objects, handles, panicked, backend, cache>>

\* Stash::stash(&obj)
StashHolder ==
    /\ result.op \in {"input", "hash"}
    /\ \E r \in {StashAndAddReference(objects, result.obj)} :
           /\ objects' = r.objects
           /\ handles' = AddHandle(handles, r.hash)
           /\ result' = [op |-> "stash", obj |-> result.obj, hash |-> r.hash]
    /\ UNCHANGED <<borrows, panicked, backend, cache>>

ArrayNext ==
    \/ FromStashable
    \/ StashHolder

ArraySpec == ArrayInit /\ [][ArrayNext]_vars

\* --------------------------------------------- operations inside operations
\* Stash.map is an Rc<RefCell<StashMap>>. stash holds a RefMut while the
\* user's Stashable code runs, unstash and unstash_inplace hold a Ref while
\* the user's reading code runs, and that code may call the Stash again, or
\* clone and drop handles. borrows lists the guards held, innermost last.

\* the guard a running operation holds, with what it was called on
Guard(kind, op, hash, obj) == [kind |-> kind, op |-> op, hash |-> hash, obj |-> obj]

\* RefCell::borrow succeeds unless the cell is mutably borrowed
TryBorrow(bs) == \A i \in DOMAIN bs : bs[i].kind # "RefMut"

\* RefCell::borrow_mut succeeds only when nothing is borrowed
TryBorrowMut(bs) == bs = <<>>

\* handles that stashes in progress are about to return
Pending(bs) == Cardinality({i \in DOMAIN bs : bs[i].op = "stash"})

\* what a call leaves behind: during is what was in progress when it was
\* made (for a return: what still is), store is the store before the step
CallResult(op, res, hash) ==
    [op |-> op, res |-> res, hash |-> hash, during |-> borrows, store |-> objects]

\* a call whose borrow of the map panics
BorrowFault(op, hash) ==
    /\ panicked' = TRUE
    /\ result' = CallResult(op, "Panic", hash)
    /\ UNCHANGED <<objects, handles, borrows>>

\* mutant: stash takes the map with borrow()
StashBorrowsShared(x) ==
    /\ ~panicked
    /\ TotalHandles + Pending(borrows) < MaxHandles
    /\ TryBorrow(borrows) => Len(borrows) < MaxRunning
    /\ IF TryBorrow(borrows)
          THEN /\ borrows' = Append(borrows, Guard("Ref", "stash", <<>>, x))
               /\ result' = CallResult("stash", "Running", <<>>)
               /\ UNCHANGED <<objects, handles, panicked>>
          ELSE BorrowFault("stash", <<>>)
    /\ UNCHANGED <<backend, cache>>

\* Stash::stash up to the user's code: self.map.borrow_mut()
StashBorrowMut(x) ==
    /\ ~panicked
    /\ TotalHandles + Pending(borrows) < MaxHandles
    /\ TryBorrowMut(borrows) => Len(borrows) < MaxRunning
    /\ IF TryBorrowMut(borrows)
          THEN /\ borrows' = Append(borrows, Guard("RefMut", "stash", <<>>, x))
               /\ result' = CallResult("stash", "Running", <<>>)
               /\ UNCHANGED <<objects, handles, panicked>>
          ELSE BorrowFault("stash", <<>>)
    /\ UNCHANGED <<backend, cache>>

\* Stash::stash from the user's code on: the entry is stored, the handle
\* made and the RefMut released
StashReturn ==
    /\ ~panicked
    /\ borrows # <<>>
    /\ borrows[Len(borrows)].op = "stash"
    /\ \E r \in {StashAndAddReference(objects, borrows[Len(borrows)].obj)} :
           /\ objects' = r.objects
           /\ handles' = AddHandle(handles, r.hash)
           /\ borrows' = SubSeq(borrows, 1, Len(borrows) - 1)
           /\ result' = [op |-> "stash", res |-> "Ok", hash |-> r.hash,
                         during |-> borrows', store |-> objects]
    /\ UNCHANGED <<panicked, backend, cache>>

\* Stash::unstash and Stash::unstash_inplace up to the user's code:
\* self.map.borrow()
ReadBorrow(op, h, obj) ==
    /\ ~panicked
    /\ TryBorrow(borrows) => Len(borrows) < MaxRunning
    /\ IF TryBorrow(borrows)
          THEN /\ borrows' = Append(borrows, Guard("Ref", op, h, obj))
               /\ result' = CallResult(op, "Running", h)
               /\ UNCHANGED <<objects, handles, panicked>>
          ELSE BorrowFault(op, h)
    /\ UNCHANGED <<backend, cache>>

\* Stash::unstash and Stash::unstash_inplace from the user's code on: the
\* result is returned and the Ref released
ReadReturn ==
    /\ ~panicked
    /\ borrows # <<>>
    /\ \E g \in {borrows[Len(borrows)]} :
           /\ g.op \in {"unstash", "unstash_inplace"}
           /\ \E r \in {IF g.op = "unstash"
                           THEN StashMapUnstash(objects, g.hash, g.obj).res
                           ELSE StashUnstashInplace(objects, g.hash, g.obj).res} :
                  /\ borrows' = SubSeq(borrows, 1, Len(borrows) - 1)
                  /\ panicked' = (r = "Panic")
                  /\ result' = [op |-> g.op, res |-> r, hash |-> g.hash,
                                during |-> borrows', store |-> objects]
    /\ UNCHANGED <<objects, handles, backend, cache>>

\* impl Clone for StashHandle: self.map.borrow().add_reference(self.hash)
HandleClone(h) ==
    /\ ~panicked
    /\ TotalHandles + Pending(borrows) < MaxHandles
    /\ IF TryBorrow(borrows)
          THEN \E r \in {AddReference(objects, h)} :
                  /\ objects' = r.objects
                  /\ panicked' = r.panic
                  /\ handles' = IF r.panic THEN handles ELSE AddHandle(handles, h)
                  /\ result' = CallResult("clone", IF r.panic THEN "Panic" ELSE "Ok", h)
                  /\ UNCHANGED borrows
          ELSE BorrowFault("clone", h)
    /\ UNCHANGED <<backend, cache>>

\* impl Drop for StashHandle: self.map.borrow_mut(), then remove_reference
HandleDrop(h) ==
    /\ ~panicked
    /\ IF TryBorrowMut(borrows)
          THEN \E r \in {RemoveReference(objects, h)} :
                  /\ objects' = r.objects
                  /\ panicked' = r.panic
                  /\ handles' = DropHandle(handles, h)
                  /\ result' = CallResult("drop", IF r.panic THEN "Panic" ELSE "Ok", h)
                  /\ UNCHANGED borrows
          ELSE BorrowFault("drop", h)
    /\ UNCHANGED <<backend, cache>>

\* Stash::num_objects: self.map.borrow().objects.len()
StashNumObjects ==
    /\ ~panicked
    /\ IF TryBorrow(borrows)
          THEN /\ result' = [CallResult("num_objects", "Ok", <<>>)
                                EXCEPT !.hash = <<Cardinality(DOMAIN objects)>>]
               /\ UNCHANGED <<objects, handles, panicked, borrows>>
          ELSE BorrowFault("num_objects", <<>>)
    /\ UNCHANGED <<backend, cache>>

ReentrantNext ==
    \/ \E x \in Elements : StashBorrowMut(x)
    \/ StashReturn
    \/ \E h \in DOMAIN handles : ReadBorrow("unstash", h, LeafT)
    \/ \E h \in DOMAIN handles : ReadBorrow("unstash_inplace", h, LeafT)
    \/ ReadReturn
    \/ \E h \in DOMAIN handles : HandleClone(h)
    \/ \E h \in DOMAIN handles : HandleDrop(h)
    \/ StashNumObjects

ReentrantSpec == Init /\ [][ReentrantNext]_vars

\* ------------------------------------------------- counts at the limit
\* reference_count is a Cell<u16> and `get() + 1` is not checked by the
\* code. A build with overflow checks (debug) panics on 65535 + 1, a build
\* without (release) wraps to 0; StashAndAddReference and AddReference
\* compute the wrapped count and the actions below apply the panic of the
\* checked build. The store starts with one entry that 65535 handles hold.
Builds == {"debug", "release"}

\* the entry at the limit: Leaf 0, stashed 65535 times
FullStore ==
    SetRefCount(StashAndAddReference(StashMapNew, Node(0, <<>>)).objects,
                WithStasher(Node(0, <<>>)), RefCountModulus - 1)

\* the objects stashed at the limit: the full entry's own object and two
\* that nest it
LimitObjects ==
    {Node(0, <<>>), Node(0, <<Node(0, <<>>)>>), Node(1, <<Node(0, <<>>)>>)}

OverflowInit ==
    /\ objects = FullStore
    /\ handles = [h \in DOMAIN FullStore |-> RefCountModulus - 1]
    /\ result \in [op : {"new"}, res : {"Ok"}, build : Builds]
    /\ panicked = FALSE
    /\ backend = NoBackend
    /\ cache = HashCacheNew(Node(0, <<>>))
    /\ borrows = <<>>

\* an unchecked `+ 1` wrapped: a count is lower after references were added
AddOverflowed(before, after) ==
    \E h \in DOMAIN before :
        h \in DOMAIN after /\ after[h].reference_count < before[h].reference_count

\* what a call leaves behind; counted is how many handles there were
CountResult(op, res, hash) ==
    [op |-> op, res |-> res, hash |-> hash, build |-> result.build,
     counted |-> handles, store |-> objects]

\* handle counts the model follows: a few, or about the limit
NearLimit(n) ==
    \/ n <= MaxHandles
    \/ n + MaxHandles + 1 >= RefCountModulus /\ n <= RefCountModulus + MaxHandles

\* Stash::stash with the count of the entry, or of a dependency, at the limit
StashAtLimit(x) ==
    /\ ~panicked
    /\ \E r \in {StashAndAddReference(objects, x)} :
           /\ NearLimit(NumHandles(handles, r.hash) + 1)
           /\ IF AddOverflowed(objects, r.objects) /\ result.build = "debug"
                 THEN /\ panicked' = TRUE
                      /\ result' = CountResult("stash", "Panic", r.hash)
                      /\ UNCHANGED <<objects, handles>>
                 ELSE /\ objects' = r.objects
                      /\ handles' = AddHandle(handles, r.hash)
                      /\ result' = CountResult("stash", "Ok", r.hash)
                      /\ UNCHANGED panicked
    /\ UNCHANGED <<backend, cache, borrows>>

\* impl Clone for StashHandle with the count at the limit
CloneAtLimit(h) ==
    /\ ~panicked
    /\ NearLimit(NumHandles(handles, h) + 1)
    /\ \E r \in {AddReference(objects, h)} :
           IF r.panic \/ (AddOverflowed(objects, r.objects) /\ result.build = "debug")
              THEN /\ panicked' = TRUE
                   /\ result' = CountResult("clone", "Panic", h)
                   /\ UNCHANGED <<objects, handles>>
              ELSE /\ objects' = r.objects
                   /\ handles' = AddHandle(handles, h)
                   /\ result' = CountResult("clone", "Ok", h)
                   /\ UNCHANGED panicked
    /\ UNCHANGED <<backend, cache, borrows>>

\* impl Drop for StashHandle near the limit
DropAtLimit(h) ==
    /\ ~panicked
    /\ NearLimit(NumHandles(handles, h) - 1)
    /\ \E r \in {RemoveReferenceBuilt(objects, h, result.build = "debug")} :
           /\ objects' = r.objects
           /\ panicked' = r.panic
           /\ handles' = DropHandle(handles, h)
           /\ result' = CountResult("drop", IF r.panic THEN "Panic" ELSE "Ok", h)
    /\ UNCHANGED <<backend, cache, borrows>>

OverflowNext ==
    \/ \E x \in LimitObjects : StashAtLimit(x)
    \/ \E h \in DOMAIN handles : CloneAtLimit(h)
    \/ \E h \in DOMAIN handles : DropAtLimit(h)

OverflowSpec == OverflowInit /\ [][OverflowNext]_vars

\* --------------------------------------------- two sequences, one store
\* Two objects that hold a Vec of objects and declare it with
\* array_of_objects_slice are stashed one after the other, and the second
\* handle is unstashed.

\* the elements: two leaves of different content
PairElements == {Node(0, <<>>), Node(1, <<>>)}

PairHolders ==
    {Holder(<<>>, order, elems) :
        order \in Orders, elems \in SeqsUpTo(PairElements, MaxElems)}

UnorderedInit ==
    /\ objects = StashMapNew
    /\ handles = <<>>
    /\ result \in [op : {"input"}, first : PairHolders, second : PairHolders]
    /\ panicked = FALSE
    /\ backend = NoBackend
    /\ cache = HashCacheNew(Node(0, <<>>))
    /\ borrows = <<>>

\* Stash::stash(&first)
StashFirst ==
    /\ result.op = "input"
    /\ \E r \in {StashAndAddReference(objects, result.first)} :
           /\ objects' = r.objects
           /\ handles' = AddHandle(handles, r.hash)
           /\ result' = [op |-> "stash_first", first |-> result.first,
                         second |-> result.second, hash1 |-> r.hash]
    /\ UNCHANGED <<panicked, backend, cache, borrows>>

\* Stash::stash(&second), with the first handle alive
StashSecond ==
    /\ result.op = "stash_first"
    /\ \E r \in {StashAndAddReference(objects, result.second)} :
           /\ objects' = r.objects
           /\ handles' = AddHandle(handles, r.hash)
           /\ result' = [op |-> "stash_second", first |-> result.first,
                         second |-> result.second, hash1 |-> result.hash1,
                         hash2 |-> r.hash, store |-> objects]
    /\ UNCHANGED <<panicked, backend, cache, borrows>>

\* StashMap::unstash with the Unstashable of the holder:
\* Ok(Self { objects: unstasher.array_of_objects_vec()? })
UnstashHolder(objs, hash, ty) ==
    IF hash \notin DOMAIN objs THEN [res |-> "Panic", val |-> <<>>]
    ELSE Let({IF r.res # "Ok" THEN [res |-> r.res, val |-> <<>>]
              ELSE IF ~IsFinished(r.u) THEN [res |-> "NotFinished", val |-> <<>>]
              ELSE [res |-> "Ok", val |-> r.val] :
              r \in {ReadArrayOfObjectVec(objs, FromStashedObject(objs[hash]), ty)}})

\* Stash::unstash(&second_handle)
UnstashSecond ==
    /\ result.op = "stash_second"
    /\ \E r \in {UnstashHolder(objects, result.hash2, LeafT)} :
           /\ result' = [op |-> "unstash_second", first |-> result.first,
                         second |-> result.second, hash1 |-> result.hash1,
                         hash2 |-> result.hash2, store |-> result.store,
                         res |-> r.res, val |-> r.val]
           /\ panicked' = (r.res = "Panic")
    /\ UNCHANGED <<objects, handles, backend, cache, borrows>>

UnorderedNext ==
    \/ StashFirst
    \/ StashSecond
    \/ UnstashSecond

UnorderedSpec == UnorderedInit /\ [][UnorderedNext]_vars

\* ------------------------------------------------ the round-trip tester
\* test_stash_roundtrip_inplace is generic in the object's type; what it
\* reports depends on the unstash_inplace that type brings. The writers of
\* unstash_inplace that RoundTripError describes:
\*   "faithful"    unstasher.u8_inplace(&mut self.v)?
\*   "always"      self.v = unstasher.u8_always()?
\*   "forgetful"   unstasher.u8_always()?;        (the value is dropped)
\*   "write_more"  unstasher.u8_inplace(&mut self.v)?;
\*                 if unstasher.time_to_write() { unstasher.u8_always()?; }
\*   "always_more" self.v = unstasher.u8_always()?;
\*                 if unstasher.time_to_write() { unstasher.u8_always()?; }
\* each followed by unstasher.object_inplace(&mut kid)? per kid
Writers == {"faithful", "always", "forgetful", "write_more", "always_more"}

\* the objects that `create` returns and that `modify` leaves
RoundTripObjects ==
    {Node(0, <<>>), Node(1, <<>>), Node(2, <<>>),
     Node(0, <<Node(0, <<>>)>>), Node(1, <<Node(0, <<>>)>>)}

\* the first read of unstash_inplace, by writer
ReadOwnValue(u, phase, x, writer) ==
    IF writer = "faithful" THEN ReadPrimitiveInplace(u, phase, x)
    ELSE IF writer = "always"
         THEN Let({IF y.res # "Ok" THEN [y EXCEPT !.val = x] ELSE y :
                   y \in {ReadPrimitiveU8(u)}})
    ELSE IF writer = "forgetful"
         THEN Let({[y EXCEPT !.val = x] : y \in {ReadPrimitiveU8(u)}})
    ELSE Let({IF a.res # "Ok" \/ phase # "Write" THEN a
              ELSE Let({[b EXCEPT !.val = a.val] : b \in {ReadPrimitiveU8(a.u)}}) :
              a \in {IF writer = "write_more" THEN ReadPrimitiveInplace(u, phase, x)
                     ELSE Let({IF y.res # "Ok" THEN [y EXCEPT !.val = x] ELSE y :
                               y \in {ReadPrimitiveU8(u)}})}})

\* object.unstash_inplace(unstasher) of the writer
WriterUnstashInplace(objs, obj, u, phase, writer) ==
    Let({IF p.res # "Ok" THEN [p EXCEPT !.val = obj]
         ELSE UnstashInplaceObject(objs, [obj EXCEPT !.v = p.val], p.u, phase, 1) :
         p \in {ReadOwnValue(u, phase, obj.v, writer)}})

\* map.unstash_inplace(hash, phase, |unstasher| object.unstash_inplace(unstasher))
WriterPass(objs, hash, phase, object, writer) ==
    IF hash \notin DOMAIN objs THEN [res |-> "Panic", val |-> object]
    ELSE Let({IF r.res # "Ok" THEN [res |-> r.res, val |-> r.val]
              ELSE IF ~IsFinished(r.u) THEN [res |-> "NotFinished", val |-> r.val]
              ELSE [res |-> "Ok", val |-> r.val] :
              r \in {WriterUnstashInplace(objs, object,
                        FromStashedObject(objs[hash]), phase, writer)}})

\* a Result<(), RoundTripError>
Outcome(kind, err) == [kind |-> kind, err |-> err]

\* mutant: the hash is compared only after the Write pass
TestStashRoundtripInplaceComparesLate(created, modified, writer) ==
    Let({IF WithStasher(modified) = s.hash
         THEN Outcome("SameHashAfterModifying", "")
         ELSE Let({IF v.res # "Ok" THEN Outcome("BasicUnstashError", v.res)
                   ELSE Let({IF w.res # "Ok"
                             THEN Outcome("UncaughtUnstashError", w.res)
                             ELSE IF WithStasher(v.val) # WithStasher(modified)
                             THEN Outcome("ModifiedDuringValidation", "")
                             ELSE IF WithStasher(w.val) # s.hash
                             THEN Outcome("DifferentHashAfterUnstashing", "")
                             ELSE Outcome("Ok", "") :
                             w \in {WriterPass(s.objects, s.hash, "Write", v.val, writer)}}) :
                   v \in {WriterPass(s.objects, s.hash, "Validate", modified, writer)}}) :
         s \in {StashAndAddReference(StashMapNew, created)}})

\* test_stash_roundtrip_inplace(create, modify): created is the object that
\* create returns, modified is that object after modify
TestStashRoundtripInplace(created, modified, writer) ==
    Let({IF WithStasher(modified) = s.hash
         THEN Outcome("SameHashAfterModifying", "")
         ELSE Let({IF v.res # "Ok" THEN Outcome("BasicUnstashError", v.res)
                   ELSE IF WithStasher(v.val) # WithStasher(modified)
                   THEN Outcome("ModifiedDuringValidation", "")
                   ELSE Let({IF w.res # "Ok"
                             THEN Outcome("UncaughtUnstashError", w.res)
                             ELSE IF WithStasher(w.val) # s.hash
                             THEN Outcome("DifferentHashAfterUnstashing", "")
                             ELSE Outcome("Ok", "") :
                             w \in {WriterPass(s.objects, s.hash, "Write", v.val, writer)}}) :
                   v \in {WriterPass(s.objects, s.hash, "Validate", modified, writer)}}) :
         s \in {StashAndAddReference(StashMapNew, created)}})

RoundTripInit ==
    /\ objects = StashMapNew
    /\ handles = <<>>
    /\ result \in [op : {"input"}, created : RoundTripObjects,
                   modified : RoundTripObjects, writer : Writers]
    /\ panicked = FALSE
    /\ backend = NoBackend
    /\ cache = HashCacheNew(Node(0, <<>>))
    /\ borrows = <<>>

\* a call of the tester; its Stash is its own and is dropped at the end
RunRoundtripInplace ==
    /\ result.op = "input"
    /\ result' = [op |-> "test_stash_roundtrip_inplace",
                  created |-> result.created, modified |-> result.modified,
                  writer |-> result.writer,
                  outcome |-> TestStashRoundtripInplace(
                                  result.created, result.modified, result.writer)]
    /\ UNCHANGED <<objects, handles, panicked, backend, cache, borrows>>

RoundTripNext == RunRoundtripInplace

RoundTripSpec == RoundTripInit /\ [][RoundTripNext]_vars

\* ------------------------------------------------------ stash and unstash
\* the objects handed to stash, stash_clone and stash_clone_proxy
CloneObjects ==
    {Node(0, <<>>), Node(1, <<>>), Node(0, <<Node(0, <<>>)>>),
     Node(1, <<Node(0, <<>>)>>), Node(NoPrim, <<Node(0, <<Node(0, <<>>)>>)>>)}

\* mutant: the handle of a failed clone is kept
StashCloneKeepsHandle(objs, object, ty) ==
    Let({Let({[res |-> r.res, hash |-> s.hash, objects |-> s.objects,
               panic |-> r.res = "Panic"] :
              r \in {StashMapUnstash(s.objects, s.hash, ty)}}) :
         s \in {StashAndAddReference(objs, object)}})

\* stash_clone and stash_clone_proxy: `let handle = stash.stash(object)`,
\* then stash.unstash(&handle) or stash.unstash_proxy(&handle, f), where ty is
\* the reader that runs; the Ok arm moves the handle into the result, the Err
\* arm lets it drop at the end of the function
StashClone(objs, object, ty) ==
    Let({Let({IF r.res = "Ok"
              THEN [res |-> "Ok", hash |-> s.hash, objects |-> s.objects,
                    panic |-> FALSE]
              ELSE Let({[res |-> r.res, hash |-> s.hash, objects |-> d.objects,
                         panic |-> r.res = "Panic" \/ d.panic] :
                        d \in {RemoveReference(s.objects, s.hash)}}) :
              r \in {StashMapUnstash(s.objects, s.hash, ty)}}) :
         s \in {StashAndAddReference(objs, object)}})

\* a call of stash_clone (ty pairs with the object) or of stash_clone_proxy
StashCloneProxy(x, ty) ==
    /\ ~panicked
    /\ TotalHandles < MaxHandles
    /\ \E c \in {StashClone(objects, x, ty)} :
           /\ objects' = c.objects
           /\ handles' = IF c.res = "Ok" THEN AddHandle(handles, c.hash) ELSE handles
           /\ panicked' = c.panic
           /\ result' = [op |-> "stash_clone", res |-> c.res, hash |-> c.hash,
                         obj |-> x, ty |-> ty, before |-> objects, held |-> handles]
    /\ UNCHANGED <<backend, cache, borrows>>

CloneNext ==
    \/ \E x \in CloneObjects : Stash(x)
    \/ \E h \in DOMAIN handles : Drop(h)
    \/ \E x \in CloneObjects, ty \in Types : StashCloneProxy(x, ty)

CloneSpec == Init /\ [][CloneNext]_vars

\* ------------------------------------------------- writing, then reading
\* A user object with two fields is serialized, and readers, out of place
\* and in place, are then applied to what was written. A field is a u8, an
\* array of u8, a string, an object or an array of objects.
FieldValue(kind, n, bytes, elems, order) ==
    [kind |-> kind, n |-> n, bytes |-> bytes, elems |-> elems, order |-> order]

\* the objects that are written: a Leaf and a Wrap with every u8 field at 1
WrittenObjects == {Node(1, <<>>), Node(1, <<Node(1, <<>>)>>)}

FieldValues ==
    {FieldValue("u8", 1, <<>>, <<>>, "Ordered")}
    \cup {FieldValue("array_of_u8", 0, Repeat(1, k), <<>>, "Ordered") : k \in 0..MaxCount}
    \cup {FieldValue("string", 0, Repeat(97, k), <<>>, "Ordered") : k \in 0..MaxCount}
    \cup {FieldValue("object", 0, <<>>, <<x>>, "Ordered") : x \in WrittenObjects}
    \cup {FieldValue("array_of_objects", 0, <<>>, elems, order) :
             elems \in SeqsUpTo(WrittenObjects, MaxCount), order \in Orders}

\* the declaration of one field: Stasher::u8, array_of_u8_slice, string,
\* object or array_of_objects_slice
Declare(st, f) ==
    CASE f.kind = "u8" -> StasherU8(st, f.n)
      [] f.kind = "array_of_u8" -> WritePrimitiveArray(st, f.bytes)
      [] f.kind = "string" -> StasherString(st, f.bytes)
      [] f.kind = "object" -> StashObjects(st, f.elems, 1)
      [] OTHER -> ArrayOfObjectsIter(st, f.elems, f.order)

StreamInit ==
    /\ objects = StashMapNew
    /\ handles = <<>>
    /\ result \in [op : {"input"}, first : FieldValues, second : FieldValues]
    /\ panicked = FALSE
    /\ backend = NoBackend
    /\ cache = HashCacheNew(Node(0, <<>>))
    /\ borrows = <<>>

\* the serializing pass of stash_and_add_reference over the two fields; mid
\* is what was written when the first field was done
Serialize ==
    /\ result.op = "input"
    /\ \E st1 \in {Declare(NewSerializer(objects), result.first)} :
         \E st2 \in {Declare(st1, result.second)} :
           /\ backend' = [bytes |-> st2.data, dependencies |-> st2.dependencies]
           /\ objects' = st2.stashmap
           /\ result' = [op |-> "serialize", first |-> result.first,
                         second |-> result.second,
                         mid |-> [bytes |-> st1.data, dependencies |-> st1.dependencies]]
    /\ UNCHANGED <<borrows, handles, panicked, cache>>

InplaceUnstashPhases == {"Validate", "Write"}

\* what an in-place read that returned r leaves behind: the target as it was
\* and as it is
InplaceResult(op, phase, target, r) ==
    [op |-> op, res |-> r.res, phase |-> phase, before |-> backend,
     target |-> target, after |-> r.val]

\* InplaceUnstasher::u8_inplace(&mut x)
U8Inplace(phase, x) ==
    /\ ~panicked
    /\ \E r \in {ReadPrimitiveInplace(backend, phase, x)} :
           /\ backend' = r.u
           /\ result' = InplaceResult("u8_inplace", phase, x, r)
           /\ panicked' = (r.res = "Panic")
    /\ UNCHANGED <<borrows, objects, handles, cache>>

\* InplaceUnstasher::array_of_u8_vec_inplace(&mut v):
\* read_primitive_array_vec_inplace
ArrayOfU8VecInplace(phase, v) ==
    /\ ~panicked
    /\ \E v2 \in {ReadPrimitiveArrayU8(backend)} :
           /\ backend' = v2.u
           /\ result' = InplaceResult("array_of_u8_vec_inplace", phase, v,
                           IF v2.res = "Ok" /\ phase = "Write" THEN v2
                           ELSE [v2 EXCEPT !.val = v])
           /\ panicked' = (v2.res = "Panic")
    /\ UNCHANGED <<borrows, objects, handles, cache>>

\* InplaceUnstasher::string_inplace(&mut x)
StringInplace(phase, x) ==
    /\ ~panicked
    /\ \E s \in {String(backend)} :
           /\ backend' = s.u
           /\ result' = InplaceResult("string_inplace", phase, x,
                           IF s.res = "Ok" /\ phase = "Write" THEN s
                           ELSE [s EXCEPT !.val = x])
           /\ panicked' = (s.res = "Panic")
    /\ UNCHANGED <<borrows, objects, handles, cache>>

\* InplaceUnstasher::array_of_objects_vec_inplace::<T>(&mut x)
ArrayOfObjectsVecInplace(phase, ty, x) ==
    /\ ~panicked
    /\ \E v \in {ReadArrayOfObjectVec(objects, backend, ty)} :
           /\ backend' = v.u
           /\ result' = InplaceResult("array_of_objects_vec_inplace", phase, x,
                           IF v.res = "Ok" /\ phase = "Write" THEN v
                           ELSE [v EXCEPT !.val = x])
           /\ panicked' = (v.res = "Panic")
    /\ UNCHANGED <<borrows, objects, handles, cache>>

\* InplaceUnstasher::object_replace::<T>(&mut object)
ObjectReplace(phase, object) ==
    /\ ~panicked
    /\ \E other_object \in {ObjectProxy(objects, backend, TypeOf(object))} :
           /\ backend' = other_object.u
           /\ result' = InplaceResult("object_replace", phase, object,
                           IF other_object.res = "Ok" /\ phase = "Write"
                              THEN other_object
                              ELSE [other_object EXCEPT !.val = object])
           /\ panicked' = (other_object.res = "Panic")
    /\ UNCHANGED <<borrows, objects, handles, cache>>

\* InplaceUnstasher::object_inplace(&mut object)
InplaceUnstasherObjectInplace(phase, object) ==
    /\ ~panicked
    /\ \E r \in {ObjectInplace(objects, backend, object, phase)} :
           /\ backend' = r.u
           /\ result' = InplaceResult("object_inplace", phase, object, r)
           /\ panicked' = (r.res = "Panic")
    /\ UNCHANGED <<borrows, objects, handles, cache>>

StreamNext ==
    \/ Serialize
    \/ U8
    \/ ArrayOfU8Vec
    \/ UnstasherString
    \/ \E ty \in ElementTypes : Object(ty)
    \/ \E ty \in ElementTypes : ArrayOfObjectsVec(ty)
    \/ \E phase \in InplaceUnstashPhases : U8Inplace(phase, 0)
    \/ \E phase \in InplaceUnstashPhases, v \in {<<>>, <<0>>} :
          ArrayOfU8VecInplace(phase, v)
    \/ \E phase \in InplaceUnstashPhases, x \in {<<>>, <<98>>} :
          StringInplace(phase, x)
    \/ \E phase \in InplaceUnstashPhases, ty \in ElementTypes :
          ArrayOfObjectsVecInplace(phase, ty, <<ty>>)
    \/ \E phase \in InplaceUnstashPhases, object \in ElementTypes :
          ObjectReplace(phase, object)
    \/ \E phase \in InplaceUnstashPhases, object \in ElementTypes :
          InplaceUnstasherObjectInplace(phase, object)

StreamSpec == StreamInit /\ [][StreamNext]_vars

\* ---------------------------------------------------------------- cache
\* A HashCache<T> whose T has one u8 field and a declaration that depends on
\* the context: stasher.u8(self.v + stasher.context()). Its in-place reader
\* takes the context off again and refuses a byte below the context.
Contexts == 0..MaxContext

\* impl Stashable<C> for T
DeclareWrapped(value, st, c) == StasherU8(st, value.v + c)

\* ObjectHash::from_stashable(stasher.context()); a context declares itself
\* as one u8
ContextHash(c) == WithStasher(Node(c, <<>>))

\* ObjectHash::from_stashable_and_context(&self.value, context)
FromStashableAndContext(value, c) == DeclareWrapped(value, NewHasher, c).hasher

\* Stasher::u64 on a hashing stasher
StasherU64(st, h) ==
    [st EXCEPT !.hasher = @ \o <<ByteItem(TagU64), U64Item(h)>>]

\* mutant: a mutable access leaves the entries as they are
DerefMutKeepsEntries(hc) == hc

\* impl DerefMut for HashCache: the entries are cleared, the value is handed out
DerefMut(hc) == [hc EXCEPT !.entries = <<NoEntry, NoEntry>>]

\* indices of the entries filled for context_hash, and of the empty entries
Matching(hc, context_hash) ==
    {i \in DOMAIN hc.entries :
        hc.entries[i].some /\ hc.entries[i].context_hash = context_hash}

Empty(hc) == {i \in DOMAIN hc.entries : ~hc.entries[i].some}

Min(S) == CHOOSE i \in S : \A j \in S : i <= j

\* mutant: a serializing read fills an entry as a hashing read does
HashCacheStashAlwaysFills(hc, st, c) ==
    Let({[cache |-> [hc EXCEPT !.entries[IF Empty(hc) = {} THEN 1 ELSE Min(Empty(hc))] =
                        HashCacheEntry(ContextHash(c), h)],
          st |-> IF st.mode = "Hash" THEN StasherU64(st, h)
                                     ELSE DeclareWrapped(hc.value, st, c),
          ran |-> TRUE] :
         h \in {FromStashableAndContext(hc.value, c)}})

\* impl Stashable for HashCache: the cache, the stasher and whether the
\* declaration of the wrapped value ran
HashCacheStash(hc, st, c) ==
    IF st.mode = "Hash"
       THEN IF Matching(hc, ContextHash(c)) # {}
               THEN [cache |-> hc,
                     st |-> StasherU64(st,
                               hc.entries[Min(Matching(hc, ContextHash(c)))].object_hash),
                     ran |-> FALSE]
               ELSE Let({[cache |-> [hc EXCEPT
                                        !.entries[IF Empty(hc) = {} THEN 1
                                                  ELSE Min(Empty(hc))] =
                                            HashCacheEntry(ContextHash(c), h)],
                          st |-> StasherU64(st, h),
                          ran |-> TRUE] :
                         h \in {FromStashableAndContext(hc.value, c)}})
       ELSE [cache |-> hc, st |-> DeclareWrapped(hc.value, st, c), ran |-> TRUE]

\* impl UnstashableInplace for T, behind HashCache::unstash_inplace, which
\* goes through deref_mut: x = unstasher.u8_always()?; a byte below the
\* context is BadValue; in the Write phase self.v = x - context
HashCacheUnstashInplace(hc, u, phase, c) ==
    Let({IF x.res # "Ok" THEN [res |-> x.res, u |-> x.u, cache |-> DerefMut(hc)]
         ELSE IF x.val < c THEN [res |-> "BadValue", u |-> x.u, cache |-> DerefMut(hc)]
         ELSE [res |-> "Ok", u |-> x.u,
               cache |-> IF phase = "Write"
                            THEN [DerefMut(hc) EXCEPT !.value = Node(x.val - c, <<>>)]
                            ELSE DerefMut(hc)] :
         x \in {ReadPrimitiveU8(u)}})

\* StashMap::unstash_inplace with f = |u| cache.unstash_inplace(u)
CacheUnstashInplacePass(objs, hash, phase, hc, c) ==
    Let({IF r.res = "Ok" /\ ~IsFinished(r.u)
            THEN [res |-> "NotFinished", cache |-> r.cache]
            ELSE [res |-> r.res, cache |-> r.cache] :
         r \in {HashCacheUnstashInplace(hc, FromStashedObject(objs[hash]), phase, c)}})

CacheInit ==
    /\ objects = StashMapNew
    /\ handles = <<>>
    /\ result = [op |-> "new", res |-> "Ok"]
    /\ panicked = FALSE
    /\ backend = NoBackend
    /\ cache \in {HashCacheNew(Node(v, <<>>)) : v \in Vals}
    /\ borrows = <<>>

\* ObjectHash::from_stashable_and_context(&cache, c): a hashing read
HashingRead(c) ==
    /\ \E r \in {HashCacheStash(cache, NewHasher, c)} :
           /\ cache' = r.cache
           /\ result' = [op |-> "hashing_read", res |-> "Ok", ctx |-> c,
                         hash |-> r.st.hasher, ran |-> r.ran, before |-> cache]
    /\ UNCHANGED <<borrows, objects, handles, panicked, backend>>

\* Stash::stash_with_context(&cache, c): StashMap::stash_and_add_reference
\* takes the hash by a hashing read and, for new content, runs a
\* serializing read; mid is the cache between the two
StashCache(c) ==
    /\ TotalHandles < MaxHandles
    /\ \E h \in {HashCacheStash(cache, NewHasher, c)} :
         \E hash \in {h.st.hasher} :
           IF hash \in DOMAIN objects
              THEN /\ objects' = SetRefCount(objects, hash,
                                    (objects[hash].reference_count + 1) % RefCountModulus)
                   /\ cache' = h.cache
                   /\ handles' = AddHandle(handles, hash)
                   /\ result' = [op |-> "stash", res |-> "Ok", ctx |-> c, hash |-> hash,
                                 serialized |-> FALSE, ran |-> h.ran,
                                 mid |-> h.cache, before |-> cache]
              ELSE \E r \in {HashCacheStash(h.cache, NewSerializer(objects), c)} :
                   /\ objects' = Insert(r.st.stashmap, hash,
                                    StashedObject(r.st.data, 1, r.st.dependencies))
                   /\ cache' = r.cache
                   /\ handles' = AddHandle(handles, hash)
                   /\ result' = [op |-> "stash", res |-> "Ok", ctx |-> c, hash |-> hash,
                                 serialized |-> TRUE, ran |-> r.ran,
                                 mid |-> h.cache, before |-> cache]
    /\ UNCHANGED <<borrows, panicked, backend>>

\* *cache = v, or any other use of the &mut T that deref_mut hands out
AssignThroughDerefMut(v) ==
    /\ cache' = [DerefMut(cache) EXCEPT !.value = Node(v, <<>>)]
    /\ result' = [op |-> "deref_mut", res |-> "Ok", before |-> cache]
    /\ UNCHANGED <<borrows, objects, handles, panicked, backend>>

\* Stash::unstash_inplace_with_context(&handle, &mut cache, c): the Validate
\* pass, `?`, then the Write pass. Restores that would take the value out of
\* Vals are left out, which keeps the values bounded
RestoreCache(h, c) ==
    /\ \E v \in {CacheUnstashInplacePass(objects, h, "Validate", cache, c)} :
           IF v.res # "Ok"
              THEN /\ cache' = v.cache
                   /\ result' = [op |-> "unstash_inplace", res |-> v.res, ctx |-> c,
                                 hash |-> h, before |-> cache]
              ELSE \E w \in {CacheUnstashInplacePass(objects, h, "Write", v.cache, c)} :
                   /\ w.cache.value.v \in Vals
                   /\ cache' = w.cache
                   /\ result' = [op |-> "unstash_inplace", res |-> w.res, ctx |-> c,
                                 hash |-> h, before |-> cache]
    /\ UNCHANGED <<borrows, objects, handles, panicked, backend>>

CacheNext ==
    \/ \E c \in Contexts : HashingRead(c)
    \/ \E c \in Contexts : StashCache(c)
    \/ \E v \in Vals : AssignThroughDerefMut(v)
    \/ \E h \in DOMAIN handles, c \in Contexts : RestoreCache(h, c)
    \/ \E h \in DOMAIN handles : Drop(h)

CacheSpec == CacheInit /\ [][CacheNext]_vars

\* ---------------------------------------------------------------- helpers
Occurrences(seq, h) == Cardinality({i \in DOMAIN seq : seq[i] = h})

RECURSIVE DepRefsIn(_, _, _)
DepRefsIn(objs, S, h) ==
    IF S = {} THEN 0
    ELSE LET p == CHOOSE p \in S : TRUE
         IN  Occurrences(objs[p].dependencies, h) + DepRefsIn(objs, S \ {p}, h)

\* occurrences of h in the dependencies lists of the entries in S
DepRefs(objs, h) == DepRefsIn(objs, DOMAIN objs, h)

RefCount(objs, h) == IF h \in DOMAIN objs THEN objs[h].reference_count ELSE 0

\* Stash::num_objects
NumObjects(objs) == Cardinality(DOMAIN objs)

\* the hashes an entry lists as dependencies
DependenciesOf(objs, h) ==
    IF h \in DOMAIN objs
       THEN {objs[h].dependencies[i] : i \in DOMAIN objs[h].dependencies}
       ELSE {}

RECURSIVE Closure(_, _)
\* S together with every hash reachable from S through dependencies lists
Closure(objs, S) ==
    IF UNION {DependenciesOf(objs, h) : h \in S} \subseteq S THEN S
    ELSE Closure(objs, S \cup UNION {DependenciesOf(objs, h) : h \in S})

\* hashes that a composite hash names directly
NestedIn(hash) == UNION {hash[i].x : i \in DOMAIN hash}

\* a hash of an object that declares at least one nested object
IsComposite(hash) == \E i \in DOMAIN hash : hash[i].k = "u64"

SameContent(objs, a, b) ==
    /\ objs[a].bytes = objs[b].bytes
    /\ objs[a].dependencies = objs[b].dependencies

\* ----------------------------------------------------------------- claims
\* C1: N structurally identical top-level values (content that no stored
\* entry lists as a dependency) held by N live handles are stored as exactly
\* one entry whose reference count is N; after k < N drops the entry is still
\* there with count N - k, and it is gone only once no handle is left.
C1_DedupCounting ==
    \A h \in DOMAIN objects \cup DOMAIN handles :
        DepRefs(objects, h) = 0 =>
            /\ h \in DOMAIN objects
            /\ NumHandles(handles, h) >= 1
            /\ objects[h].reference_count = NumHandles(handles, h)
            /\ Cardinality({e \in DOMAIN objects : SameContent(objects, e, h)}) = 1

C1_Witness ==
    /\ result.op = "drop"
    /\ \E h \in DOMAIN handles :
          /\ result.hash = h
          /\ DepRefs(objects, h) = 0
          /\ objects[h].reference_count = 1

\* C2: after every completed operation every entry in the store has a
\* reference count greater than zero.
C2_EntriesHavePositiveCount ==
    \A h \in DOMAIN objects : objects[h].reference_count > 0

C2_Witness ==
    /\ result.op = "drop"
    /\ result.hash \notin DOMAIN objects
    /\ DOMAIN objects # {}

\* C3: a stash raises the count of the entry it returns by exactly one (a new
\* entry starts at one), a clone raises the count of its entry by exactly one
\* and changes nothing else, a drop lowers the count of its entry by exactly
\* one; a drop that takes the count to zero deletes the entry in that very
\* step and every entry it listed has lost at least its occurrences.
C3_CountSteps ==
    [][/\ result'.op = "stash" =>
             /\ RefCount(objects', result'.hash) = RefCount(objects, result'.hash) + 1
             /\ result'.hash \in DOMAIN objects =>
                   objects' = SetRefCount(objects, result'.hash,
                                 objects[result'.hash].reference_count + 1)
       /\ (result'.op = "clone" /\ result'.res = "Ok") =>
             objects' = SetRefCount(objects, result'.hash,
                           objects[result'.hash].reference_count + 1)
       /\ (result'.op = "drop" /\ RefCount(objects, result'.hash) > 1) =>
             objects' = SetRefCount(objects, result'.hash,
                           objects[result'.hash].reference_count - 1)
       /\ (result'.op = "drop" /\ RefCount(objects, result'.hash) = 1) =>
             /\ result'.hash \notin DOMAIN objects'
             /\ \A d \in DependenciesOf(objects, result'.hash) :
                   RefCount(objects', d) <= RefCount(objects, d)
                       - Occurrences(objects[result'.hash].dependencies, d)
       /\ result'.op \in {"stash", "clone", "drop"} => result'.res = "Ok"
      ]_vars

C3_Witness ==
    /\ result.op = "drop"
    /\ IsComposite(result.hash)
    /\ result.hash \notin DOMAIN objects
    /\ handles # <<>>

\* C4: the reference count of every entry equals the number of live handles
\* holding its hash plus the number of times stored entries list it as a
\* dependency, repeated listings in one parent counted each time.
C4_CountIsHandlesPlusListings ==
    \A h \in DOMAIN objects \cup DOMAIN handles :
        RefCount(objects, h) = NumHandles(handles, h) + DepRefs(objects, h)

C4_Witness ==
    \E h \in DOMAIN handles, p \in DOMAIN objects :
        /\ Occurrences(objects[p].dependencies, h) = 2
        /\ objects[h].reference_count = 3

\* C5: when the last handle of a composite entry that no stored entry lists
\* is dropped, the entry is deleted, every deleted entry is one whose count
\* was used up by that handle and by the listings in deleted entries, and
\* every other entry stays, unchanged but for its count, which is lower by
\* exactly the listings in the deleted entries and still positive.
C5_CascadeOnLastDrop ==
    [][(/\ result'.op = "drop"
        /\ IsComposite(result'.hash)
        /\ NumHandles(handles, result'.hash) = 1
        /\ DepRefs(objects, result'.hash) = 0) =>
          /\ result'.hash \in DOMAIN objects \ DOMAIN objects'
          /\ DOMAIN objects' \subseteq DOMAIN objects
          /\ \A e \in DOMAIN objects \ DOMAIN objects' :
                objects[e].reference_count =
                    (IF e = result'.hash THEN 1 ELSE 0)
                    + DepRefsIn(objects, DOMAIN objects \ DOMAIN objects', e)
          /\ \A e \in DOMAIN objects' :
                /\ objects'[e].reference_count > 0
                /\ objects'[e] =
                      [objects[e] EXCEPT !.reference_count =
                          @ - DepRefsIn(objects, DOMAIN objects \ DOMAIN objects', e)]
      ]_vars

C5_Witness ==
    /\ result.op = "drop"
    /\ result.hash \notin DOMAIN objects
    /\ \E e \in NestedIn(result.hash) : e \in DOMAIN objects
    /\ \E e \in NestedIn(result.hash) : e \notin DOMAIN objects

\* C6: once every handle has been dropped the store holds no object.
C6_NoLeaks ==
    handles = <<>> => NumObjects(objects) = 0

C6_Witness ==
    /\ result.op = "drop"
    /\ IsComposite(result.hash)
    /\ NestedIn(result.hash) # {}
    /\ handles = <<>>

\* C7: the entry of every live handle, and every entry reachable from it
\* through dependencies lists, is in the store.
C7_HandleKeepsEntryAlive ==
    \A h \in DOMAIN handles : Closure(objects, {h}) \subseteq DOMAIN objects

C7_Witness ==
    /\ result.op = "drop"
    /\ \E h \in DOMAIN handles :
          /\ IsComposite(h)
          /\ result.hash \in Closure(objects, {h}) \ {h}

\* C8: an in-place restore whose Validate pass fails stops after that pass,
\* returns the error of that pass and leaves the target as it was.
C8_ValidateFailureLeavesTarget ==
    result.op = "unstash_inplace" =>
        \A v \in {StashMapUnstashInplace(objects, result.hash, "Validate",
                                         result.before)} :
            /\ v.res # "Ok" =>
                  /\ result.phase = "Validate"
                  /\ result.res = v.res
                  /\ result.after = result.before
            /\ result.phase = "Write" => v.res = "Ok"

C8_Witness ==
    /\ result.op = "unstash_inplace"
    /\ result.res \in {"NotFinished", "OutOfData"}
    /\ result.phase = "Validate"
    /\ IsComposite(result.hash)
    /\ result.before.kids # <<>>

\* C9: an in-place restore whose Validate pass succeeds also succeeds in its
\* Write pass, and the target then hashes to the hash of the handle.
C9_ValidatedWriteRestores ==
    (/\ result.op = "unstash_inplace"
     /\ StashMapUnstashInplace(objects, result.hash, "Validate",
                               result.before).res = "Ok") =>
        /\ result.res = "Ok"
        /\ result.phase = "Write"
        /\ WithStasher(result.after) = result.hash

C9_Witness ==
    /\ result.op = "unstash_inplace"
    /\ result.res = "Ok"
    /\ IsComposite(result.hash)
    /\ result.after # result.before
    /\ \E i \in DOMAIN result.after.kids :
          result.after.kids[i] # result.before.kids[i]

\* C10: the handle a stash returns carries the hash of the stashed object and
\* unstashing it right away succeeds with an object of that hash; later, with
\* whatever else is stored, unstashing a handle as the type it was stashed
\* from succeeds with an object whose hash is the hash of the handle.
C10_RoundTrip ==
    /\ result.op = "stash" =>
          /\ result.hash = WithStasher(result.obj)
          /\ \A r \in {StashMapUnstash(objects, result.hash, TypeOf(result.obj))} :
                r.res = "Ok" /\ WithStasher(r.val) = result.hash
    /\ (/\ result.op = "unstash"
        /\ \E x \in ValuesOf(result.ty) : WithStasher(x) = result.hash) =>
          /\ result.res = "Ok"
          /\ result.out = result.hash

C10_Witness ==
    /\ result.op = "unstash"
    /\ result.res = "Ok"
    /\ IsComposite(result.hash)
    /\ result.out = result.hash
    /\ \E e \in DOMAIN objects : e \notin Closure(objects, {result.hash})

\* ------------------------------------------------------------------- C11
\* the type of the object whose stash produced the entry under hash
TypeOfHash(hash) == Let({TypeOf(x) : x \in {y \in Universe : WithStasher(y) = hash}})

RECURSIVE Expected(_, _), ExpectedKids(_, _, _)

\* what the declaration of ty meets, field by field, in an entry written by
\* the declaration of tx: the first field that is missing or of another kind
\* decides, a nested object is met by the nested declarations, and fields of
\* tx that are left over once ty is through are unread data
Expected(tx, ty) ==
    IF ty.v # NoPrim /\ tx.v = NoPrim
       THEN IF tx.kids = <<>> THEN "OutOfData" ELSE "WrongValueType"
    ELSE IF ty.v = NoPrim /\ tx.v # NoPrim
       THEN IF ty.kids = <<>> THEN "NotFinished" ELSE "WrongValueType"
    ELSE ExpectedKids(tx, ty, 1)

ExpectedKids(tx, ty, i) ==
    IF i > Len(ty.kids)
       THEN IF i <= Len(tx.kids) THEN "NotFinished" ELSE "Ok"
    ELSE IF i > Len(tx.kids) THEN "OutOfData"
    ELSE Let({IF e # "Ok" THEN e ELSE ExpectedKids(tx, ty, i + 1) :
              e \in {Expected(tx.kids[i], ty.kids[i])}})

\* C11: a reader that returns Ok while a byte or a dependency of the entry is
\* still unread makes the read fail with NotFinished, at the top level and at
\* a nested object alike, for unstash and for either pass of unstash_inplace;
\* a reader that consumes exactly what the paired stash declared never gets
\* NotFinished.
C11_NotFinishedIffUnread ==
    /\ result.op = "unstash" =>
          ((result.res = "NotFinished") <=>
           (Expected(TypeOfHash(result.hash), result.ty) = "NotFinished"))
    /\ result.op = "unstash_inplace" =>
          \A e \in {Expected(TypeOfHash(result.hash), TypeOf(result.before))} :
             /\ (result.res = "NotFinished") <=> (e = "NotFinished")
             /\ \A phase \in {"Validate", "Write"} :
                   (StashMapUnstashInplace(objects, result.hash, phase,
                                           result.before).res = "NotFinished")
                   <=> (e = "NotFinished")

\* a read that fails with NotFinished because a nested reader left data
C11_Witness ==
    /\ result.op = "unstash"
    /\ result.res = "NotFinished"
    /\ result.ty.kids # <<>>
    /\ Len(result.ty.kids) >= Len(TypeOfHash(result.hash).kids)

\* ------------------------------------------------------------------- C12
ReadOps == {"u8", "array_of_u8_vec", "string", "object",
            "array_of_objects_vec", "array_of_proxy_objects"}

UnstashErrors == {"WrongValueType", "OutOfData", "Corrupted", "NotFinished"}

\* C12: a read operation of a primitive, a primitive array, a string, an
\* object, an array of objects or an array of proxy objects that returns an
\* error leaves the byte cursor and the dependency cursor where they were
\* before the call.
C12_ErrorLeavesCursors ==
    (result.op \in ReadOps /\ result.res \in UnstashErrors) =>
        backend = result.before

\* ------------------------------------------------------------------- C13
\* the value type a read operation expects: <<category, primitive nibble>>
ExpectedTag(op) ==
    CASE op = "u8" -> <<"Primitive", TagU8>>
      [] op = "array_of_u8_vec" -> <<"Array", TagU8>>
      [] op = "string" -> <<"String", 0>>
      [] op = "object" -> <<"StashedObject", 0>>
      [] OTHER -> <<"ArrayOfObjects", 0>>

\* the bytes of a value of op, beyond its tag, that a stream must still hold
\* when len is what follows the tag: the value of a u8, a length prefix, and
\* for an array of u8 or a string the payload the prefix announces
BytesNeeded(op, rest) ==
    CASE op = "u8" -> 1
      [] op = "object" -> 0
      [] op \in {"array_of_u8_vec", "string"} ->
            IF Len(rest) < 4 THEN 4 ELSE 4 + FromBeBytes(SubSeq(rest, 1, 4))
      [] OTHER -> 4

\* the cause of a failure that the bytes alone decide, "None" if there is none
Cause(op, u) ==
    IF u.bytes = <<>> THEN "OutOfData"
    ELSE IF ValueTypeFromByte(Head(u.bytes))[1] # "Ok" THEN "Corrupted"
    ELSE IF <<ValueTypeFromByte(Head(u.bytes))[2],
              ValueTypeFromByte(Head(u.bytes))[3]>> # ExpectedTag(op)
         THEN "WrongValueType"
    ELSE IF Len(Tail(u.bytes)) < BytesNeeded(op, Tail(u.bytes)) THEN "OutOfData"
    ELSE "None"

Reordered(obj, p) == [obj EXCEPT !.elems = [i \in DOMAIN @ |-> @[p[i]]]]

PairwiseDistinct(elems) ==
    \A i, j \in DOMAIN elems : i # j => WithStasher(elems[i]) # WithStasher(elems[j])

\* C16: two arrays of objects with the same elements in another order hash
\* alike when both are declared Unordered, and differently when both are
\* declared Ordered and the elements have pairwise distinct hashes.
C16_OrderSensitivity ==
    result.op = "hash" =>
        \A p \in Permutations(DOMAIN result.obj.elems) :
            \A other \in {Reordered(result.obj, p)} :
                IF result.obj.order = "Unordered"
                   THEN WithStasher(other) = result.hash
                   ELSE (PairwiseDistinct(result.obj.elems) /\ other # result.obj)
                            => WithStasher(other) # result.hash

C16_Witness ==
    /\ result.op = "hash"
    /\ result.obj.order = "Unordered"
    /\ Len(result.obj.elems) = MaxElems
    /\ PairwiseDistinct(result.obj.elems)

\* ------------------------------------------------------------------- C17
RECURSIVE NodesIn(_)
\* x and the objects nested in x, at any depth
NodesIn(x) == {x} \cup UNION {NodesIn(x.kids[i]) : i \in DOMAIN x.kids}

\* the objects nested in a Holder, at any depth: its object fields, the
\* elements of its array, and what those nest
NestedNodes(obj) ==
    UNION {NodesIn(obj.kids[i]) : i \in DOMAIN obj.kids}
    \cup UNION {NodesIn(obj.elems[i]) : i \in DOMAIN obj.elems}

\* what a declaration serializes when nothing is stored yet
Serialized(x) == StashObject(x, NewSerializer(StashMapNew), 0)

HashesOf(seq) == [i \in DOMAIN seq |-> WithStasher(seq[i])]

IsU64Item(item) == item.k = "u64"

\* what was written to the hasher as u64 values while hash was taken
FoldedInto(hash) == [i \in DOMAIN SelectSeq(hash, IsU64Item) |->
                        SelectSeq(hash, IsU64Item)[i].x]

RECURSIVE XorAll(_, _)
\* the exclusive or of the hashes in seq from index i on
XorAll(seq, i) == IF i > Len(seq) THEN {} ELSE Xor(XorAll(seq, i + 1), seq[i])

\* C18: the dependencies list of a newly created entry is the sequence of
\* the hashes of the nested objects its declaration names while it is
\* serialized, in the order of the declaration and with repetitions: one per
\* object() call and one per element of an array of objects; and these are
\* the hashes that were folded into the hash of the parent, one by one in
\* that order, or by exclusive or for the elements of an Unordered array.
C18_DependenciesAsDeclared ==
    result.op = "stash" =>
        \A deps \in {objects[result.hash].dependencies} :
            /\ deps = HashesOf(result.obj.kids \o result.obj.elems)
            /\ \A y \in NestedNodes(result.obj) :
                  objects[WithStasher(y)].dependencies = HashesOf(y.kids)
            /\ \A n \in {Len(result.obj.kids)} :
                  IF result.obj.order = "Ordered"
                     THEN FoldedInto(result.hash) = [i \in DOMAIN deps |-> {deps[i]}]
                     ELSE FoldedInto(result.hash) =
                             [i \in 1..n |-> {deps[i]}] \o <<XorAll(deps, n + 1)>>

\* a new entry that names an object field and the same element twice
C18_Witness ==
    /\ result.op = "stash"
    /\ result.obj.kids # <<>>
    /\ Len(result.obj.elems) = MaxElems
    /\ result.obj.elems[1] = result.obj.elems[2]
    /\ result.obj.elems[1] # result.obj.kids[1]
    /\ Len(objects[result.hash].dependencies) = 1 + MaxElems

\* ------------------------------------------------------------------- C19
\* what a hashing read of a HashCache writes when the hash of the wrapped
\* value is taken afresh
FreshContribution(hc, c) ==
    <<ByteItem(TagU64), U64Item(FromStashableAndContext(hc.value, c))>>

\* C19: whatever hashing reads, mutable accesses and in-place restores came
\* before, a hashing read of a HashCache under context c contributes the
\* hash a fresh computation from the wrapped value and c gives; a filled
\* entry always holds the fresh hash of its context; a mutable access or an
\* in-place restore leaves every entry empty; and a hashing read that finds
\* an entry for the hash of c does not run the wrapped declaration.
C19_CacheCoherence ==
    /\ \A i \in DOMAIN cache.entries :
          cache.entries[i].some =>
             \E c \in Contexts :
                /\ cache.entries[i].context_hash = ContextHash(c)
                /\ cache.entries[i].object_hash =
                      FromStashableAndContext(cache.value, c)
    /\ result.op \in {"hashing_read", "stash"} =>
          result.hash = FreshContribution(result.before, result.ctx)
    /\ result.op = "hashing_read" =>
          (Matching(result.before, ContextHash(result.ctx)) # {} => ~result.ran)
    /\ result.op \in {"deref_mut", "unstash_inplace"} =>
          Empty(cache) = DOMAIN cache.entries

\* a hashing read served from the second entry of a full cache
C19_Witness ==
    /\ result.op = "hashing_read"
    /\ ~result.ran
    /\ Empty(result.before) = {}
    /\ Matching(result.before, ContextHash(result.ctx)) = {2}

\* ------------------------------------------------------------------- C20
\* C20: a serializing read of a HashCache runs the declaration of the
\* wrapped value and writes its bytes, never the cached hash, whether the
\* cache is filled or not, and leaves the entries as they were.
C20_SerializingReadIsReal ==
    /\ \A c \in Contexts :
          \A r \in {HashCacheStash(cache, NewSerializer(objects), c)} :
             /\ r.st.data = <<ToByteU8, cache.value.v + c>>
             /\ r.st.dependencies = <<>>
             /\ r.ran
             /\ r.cache = cache
    /\ (result.op = "stash" /\ result.serialized) =>
          /\ objects[result.hash].bytes = <<ToByteU8, result.before.value.v + result.ctx>>
          /\ result.ran
          /\ cache = result.mid

\* new content stashed from a HashCache whose entries were both filled
C20_Witness ==
    /\ result.op = "stash"
    /\ result.serialized
    /\ Empty(result.before) = {}
    /\ Matching(result.before, ContextHash(result.ctx)) = {}

\* ------------------------------------------------------------------- C21
\* C21: Stash::unstash, Stash::unstash_proxy and Stash::unstash_inplace,
\* whether they return a value or an error, leave the store as it was: the
\* same entries, each with the same bytes, dependencies and reference
\* count, and the same live handles.
C21_ReadsLeaveStore ==
    [][result'.op \in {"unstash", "unstash_inplace"} =>
          /\ objects' = objects
          /\ handles' = handles]_vars

\* a failed read of a composite entry while another entry is shared
C21_Witness ==
    /\ result.op \in {"unstash", "unstash_inplace"}
    /\ result.res \in {"WrongValueType", "OutOfData", "NotFinished"}
    /\ IsComposite(result.hash)
    /\ \E e \in DOMAIN objects : objects[e].reference_count >= 2

\* ------------------------------------------------------------------- C22
\* C22: in every reachable store no entry reaches itself by following
\* dependencies lists.
C22_Acyclic ==
    \A h \in DOMAIN objects :
        h \notin Closure(objects, DependenciesOf(objects, h))

\* a store with a chain of three entries and an entry listed twice by one parent
C22_Witness ==
    /\ \E h \in DOMAIN objects :
          \E d \in DependenciesOf(objects, h) :
             DependenciesOf(objects, d) # {}
    /\ \E p \in DOMAIN objects :
          \E d \in DependenciesOf(objects, p) :
             Occurrences(objects[p].dependencies, d) = 2

\* ------------------------------------------------------------------- C23
\* C23: a stash whose hash finds an entry runs no serializing pass: the
\* store keeps the same entries, every entry keeps its bytes and its
\* dependencies, every other entry (the nested entries of the matched one
\* among them) keeps its count, and the count of the matched entry grows by
\* one.
C23_RepeatStashOnlyBumps ==
    [][(result'.op = "stash" /\ result'.hash \in DOMAIN objects) =>
          /\ DOMAIN objects' = DOMAIN objects
          /\ \A e \in DOMAIN objects :
                /\ objects'[e].bytes = objects[e].bytes
                /\ objects'[e].dependencies = objects[e].dependencies
                /\ objects'[e].reference_count =
                      objects[e].reference_count
                      + (IF e = result'.hash THEN 1 ELSE 0)]_vars

\* a composite stashed a second time, with its nested entry still counted once
C23_Witness ==
    /\ result.op = "stash"
    /\ IsComposite(result.hash)
    /\ objects[result.hash].reference_count = 2
    /\ \E d \in DependenciesOf(objects, result.hash) :
          objects[d].reference_count = Occurrences(objects[result.hash].dependencies, d)

\* ------------------------------------------------------------------- C25
\* the largest number in S, 0 for the empty set
MaxOf(S) == IF S = {} THEN 0 ELSE CHOOSE n \in S : \A m \in S : m <= n

RECURSIVE ExclusiveChain(_, _), LongestPath(_, _)

\* the entries on the longest chain that starts at h and goes on through the
\* dependencies of every entry whose count is one, the first entry on it
\* whose count is higher included
ExclusiveChain(objs, h) ==
    IF objs[h].reference_count # 1 THEN 1
    ELSE 1 + MaxOf({ExclusiveChain(objs, d) : d \in DependenciesOf(objs, h)})

\* the entries on the longest path of dependencies that starts at h
LongestPath(objs, h) ==
    1 + MaxOf({LongestPath(objs, d) : d \in DependenciesOf(objs, h)})

\* C25 as the specification states it: the cascade of remove_reference is
\* run from a work-list, so the calls of a release nest to the same depth
\* however long the chain of dependencies that is released.
C25_DepthIsConstant ==
    result.op = "drop" => result.depth = 1

\* C25, amended: remove_reference runs the cascade by recursion on the call
\* stack; decrease_refcounts_recursive calls itself for each dependency of an
\* entry whose count it has taken to zero, and only the removals from the
\* map wait in a list. The calls of a release nest at least as deep as the
\* longest chain of entries, each held once and by its predecessor only,
\* that starts at the released entry, and at most as deep as the longest
\* path of dependencies from it.
C25_DepthFollowsChain ==
    [][result'.op = "drop" =>
          /\ result'.depth >= ExclusiveChain(objects, result'.hash)
          /\ result'.depth <= LongestPath(objects, result'.hash)]_vars

\* a release of a chain of three entries, three calls deep
C25_Witness ==
    /\ result.op = "drop"
    /\ result.depth = 3
    /\ Len(result.queued) = 3

\* ------------------------------------------------------------------- C26
\* C26: during a remove_reference on a reachable store no count is
\* decremented at zero and every hash that is looked up has an entry (no
\* fatal fault), a hash is queued for removal at most once and only with its
\* count at zero, the map keeps all its entries until the decrements are
\* done, and the removals that follow all find their entry.
C26_CascadeIsSafe ==
    /\ \A h \in DOMAIN handles :
          \A d \in {DecreaseRefcountsRecursive(
                       [objects |-> objects, objects_to_remove |-> <<>>,
                        panic |-> FALSE, depth |-> 0, max_depth |-> 0], h)} :
             /\ ~d.panic
             /\ DOMAIN d.objects = DOMAIN objects
             /\ \A i, j \in DOMAIN d.objects_to_remove :
                   d.objects_to_remove[i] = d.objects_to_remove[j] => i = j
             /\ \A e \in DOMAIN objects :
                   (\E i \in DOMAIN d.objects_to_remove : d.objects_to_remove[i] = e)
                   <=> d.objects[e].reference_count = 0
             /\ ~RemoveAll(d, 1).panic
             /\ DOMAIN RemoveAll(d, 1).objects =
                   {e \in DOMAIN objects : d.objects[e].reference_count > 0}
    /\ result.op = "drop" =>
          /\ result.res = "Ok"
          /\ \A i \in DOMAIN result.queued : result.queued[i] \notin DOMAIN objects

\* a release in which an entry that its parent lists twice is decremented
\* twice and queued once
C26_Witness ==
    /\ result.op = "drop"
    /\ \E i \in DOMAIN result.queued :
          Cardinality({j \in DOMAIN result.hash :
                          result.hash[j].x = {result.queued[i]}}) = 2

\* ------------------------------------------------------------------- C27
\* C27: in every reachable store each hash in the dependencies list of an
\* entry is the key of an entry of the store, so that a read which resolves
\* a nested object never looks up a hash that is missing.
C27_NoDanglingDependency ==
    /\ \A p \in DOMAIN objects : DependenciesOf(objects, p) \subseteq DOMAIN objects
    /\ result.op \in {"unstash", "unstash_inplace"} => result.res # "Panic"

\* a read that resolves dependencies at two levels, each entry held once
C27_Witness ==
    /\ result.op = "unstash"
    /\ result.res = "Ok"
    /\ \E d \in DependenciesOf(objects, result.hash) :
          /\ DependenciesOf(objects, d) # {}
          /\ objects[d].reference_count = 1
    /\ Cardinality(DOMAIN objects) = 3

\* ------------------------------------------------------------------- C28
\* C28: add_reference, unstash, unstash_inplace and remove_reference, called
\* with a hash that has no entry in the store, end in a fatal fault and
\* return no UnstashError; so do Stash::unstash and Stash::unstash_inplace
\* when they are given a handle whose entry is in another Stash and not in
\* this one.
C28_MissingHashIsFatal ==
    /\ \A x \in Universe :
          \A hash \in {WithStasher(x)} :
             hash \notin DOMAIN objects =>
                /\ AddReference(objects, hash).panic
                /\ RemoveReference(objects, hash).panic
                /\ \A ty \in Types : StashMapUnstash(objects, hash, ty).res = "Panic"
                /\ \A object \in Targets, phase \in {"Validate", "Write"} :
                      StashMapUnstashInplace(objects, hash, phase, object).res = "Panic"
    /\ (result.op \in {"unstash_foreign", "unstash_inplace_foreign"} /\ ~result.known) =>
          /\ result.res = "Panic"
          /\ panicked

\* a handle of another Stash, unstashed in a Stash that holds other entries
C28_Witness ==
    /\ result.op = "unstash_foreign"
    /\ result.res = "Panic"
    /\ IsComposite(result.hash)
    /\ DOMAIN objects # {}
    /\ NestedIn(result.hash) \subseteq DOMAIN objects

\* ------------------------------------------------------------------- C24
InplaceOps == {"u8_inplace", "array_of_u8_vec_inplace", "string_inplace",
               "array_of_objects_vec_inplace", "object_replace", "object_inplace"}

\* the read of the backend behind an in-place method that reads a value and
\* then assigns it
BackendRead(op, objs, u, target) ==
    CASE op = "u8_inplace" -> ReadPrimitiveU8(u)
      [] op = "array_of_u8_vec_inplace" -> ReadPrimitiveArrayU8(u)
      [] op = "string_inplace" -> String(u)
      [] op = "array_of_objects_vec_inplace" -> ReadArrayOfObjectVec(objs, u, target[1])
      [] OTHER -> ObjectProxy(objs, u, TypeOf(target))

\* C24: an in-place method that is given a target returns the same result
\* and leaves the byte cursor and the dependency cursor at the same place in
\* the Validate phase and in the Write phase (they are those of the read
\* behind it), and the target is as it was unless the phase is Write and
\* the read succeeded, when it holds the value read; object_inplace hands
\* its own phase to the nested object, so that after a Validate pass the
\* target is as it was at every depth.
C24_PhasesReadAlike ==
    result.op \in InplaceOps =>
        /\ result.phase = "Validate" => result.after = result.target
        /\ result.op # "object_inplace" =>
              \A r \in {BackendRead(result.op, objects, result.before, result.target)} :
                 /\ result.res = r.res
                 /\ backend = r.u
                 /\ result.after = IF result.phase = "Write" /\ r.res = "Ok"
                                      THEN r.val ELSE result.target
        /\ result.op = "object_inplace" =>
              /\ \A phase \in InplaceUnstashPhases :
                    \A r \in {ObjectInplace(objects, result.before, result.target, phase)} :
                       /\ r.res = result.res
                       /\ r.u = backend
              /\ (result.phase = "Write" /\ result.res = "Ok") =>
                    WithStasher(result.after) = Head(result.before.dependencies)

\* a Validate pass over an entry that nests an object, into a target whose
\* fields all differ from what is stored
C24_Witness ==
    /\ result.op = "object_inplace"
    /\ result.phase = "Validate"
    /\ result.res = "Ok"
    /\ result.target.kids # <<>>
    /\ WithStasher(result.target) # Head(result.before.dependencies)
    /\ backend.dependencies # <<>>

\* ------------------------------------------------------------------- C29
\* C29: serializing one nested object appends one byte to the bytes of the
\* parent, the tag of an object reference, and one hash to its dependencies,
\* the hash of the nested object; what the nested object declares is in the
\* entry under that hash and not in the bytes of the parent.
C29_ObjectIsOneTagOneHash ==
    result.op = "serialize" =>
        /\ result.first.kind = "object" =>
              /\ result.mid.bytes = <<TagStashedObject>>
              /\ result.mid.dependencies = <<WithStasher(result.first.elems[1])>>
        /\ result.second.kind = "object" =>
              /\ backend.bytes = result.mid.bytes \o <<TagStashedObject>>
              /\ backend.dependencies =
                    result.mid.dependencies \o <<WithStasher(result.second.elems[1])>>
        /\ \A f \in {result.first, result.second} :
              f.kind = "object" =>
                 /\ objects[WithStasher(f.elems[1])].bytes = Serialized(f.elems[1]).data
                 /\ objects[WithStasher(f.elems[1])].dependencies = HashesOf(f.elems[1].kids)

\* two object fields, the first an object that nests another
C29_Witness ==
    /\ result.op = "serialize"
    /\ result.first.kind = "object"
    /\ result.second.kind = "object"
    /\ result.first.elems[1].kids # <<>>
    /\ Len(backend.bytes) = Len(backend.dependencies)

\* ------------------------------------------------------------------- C30
IsSequence(f) == f.kind \in {"array_of_u8", "string", "array_of_objects"}

\* the bytes of a sequence: the tag, the number of elements in four bytes,
\* the most significant first, and the elements that are written as bytes
SequenceBytes(f) ==
    CASE f.kind = "array_of_u8" -> <<TagArrayU8>> \o ToBeBytes(Len(f.bytes)) \o f.bytes
      [] f.kind = "string" -> <<TagString>> \o ToBeBytes(Len(f.bytes)) \o f.bytes
      [] OTHER -> <<TagArrayOfObjects>> \o ToBeBytes(Len(f.elems))

\* C30: once a sequence is serialized, the four bytes after its tag hold the
\* number of its elements (of its bytes for a string), most significant
\* byte first; the elements written behind them and everything written
\* before the sequence are as they were written; an array of objects lists
\* one dependency per element; and a read of the sequence that succeeds
\* returns that many elements and moves the cursors by exactly the
\* sequence: tag, length and that many bytes, or that many dependencies.
C30_LengthPrefix ==
    /\ result.op = "serialize" =>
          /\ SubSeq(backend.bytes, 1, Len(result.mid.bytes)) = result.mid.bytes
          /\ IsSequence(result.first) => result.mid.bytes = SequenceBytes(result.first)
          /\ IsSequence(result.second) =>
                backend.bytes = result.mid.bytes \o SequenceBytes(result.second)
          /\ result.first.kind = "array_of_objects" =>
                result.mid.dependencies = HashesOf(result.first.elems)
          /\ result.second.kind = "array_of_objects" =>
                backend.dependencies =
                    result.mid.dependencies \o HashesOf(result.second.elems)
    /\ (result.op \in {"array_of_u8_vec", "string", "array_of_objects_vec"}
        /\ result.res = "Ok") =>
          \A n \in {FromBeBytes(SubSeq(result.before.bytes, 2, 5))} :
             /\ Len(result.val) = n
             /\ IF result.op = "array_of_objects_vec"
                   THEN /\ backend.bytes =
                              SubSeq(result.before.bytes, 6, Len(result.before.bytes))
                        /\ backend.dependencies =
                              SubSeq(result.before.dependencies, n + 1,
                                     Len(result.before.dependencies))
                        /\ HashesOf(result.val) = SubSeq(result.before.dependencies, 1, n)
                   ELSE /\ backend.bytes =
                              SubSeq(result.before.bytes, 6 + n, Len(result.before.bytes))
                        /\ backend.dependencies = result.before.dependencies
                        /\ result.val = SubSeq(result.before.bytes, 6, 5 + n)

\* an array of objects read back, with another field behind it
C30_Witness ==
    /\ result.op = "array_of_objects_vec"
    /\ result.res = "Ok"
    /\ Len(result.val) = MaxCount
    /\ result.val[1].kids # <<>>
    /\ backend.bytes # <<>>
    /\ backend.dependencies # <<>>

\* ------------------------------------------------------------------- C31
\* a backend whose next value is one object, with no dependency left
LacksDependency(u) ==
    /\ u.bytes # <<>>
    /\ Head(u.bytes) = TagStashedObject
    /\ u.dependencies = <<>>

\* a backend whose next value is an array of objects that announces more
\* elements than there are dependencies left
LacksDependencies(u) ==
    /\ Len(u.bytes) >= 5
    /\ Head(u.bytes) = TagArrayOfObjects
    /\ FromBeBytes(SubSeq(u.bytes, 2, 5)) > Len(u.dependencies)

\* C31: when the next value is an object and no dependency is left, or an
\* array of objects that announces more elements than dependencies are
\* left, every read of it (object out of place or in place in either phase,
\* array of objects collected or through proxies) returns Corrupted and
\* leaves the dependency cursor, and the byte cursor, where they were.
C31_ExhaustedDependenciesAreCorrupted ==
    /\ LacksDependency(backend) =>
          \A ty \in ElementTypes :
             /\ \A r \in {ObjectProxy(objects, backend, ty)} :
                   r.res = "Corrupted" /\ r.u = backend
             /\ \A phase \in InplaceUnstashPhases :
                   \A r \in {ObjectInplace(objects, backend, ty, phase)} :
                      r.res = "Corrupted" /\ r.u = backend /\ r.val = ty
    /\ LacksDependencies(backend) =>
          \A ty \in ElementTypes :
             /\ \A r \in {ReadArrayOfObjectVec(objects, backend, ty)} :
                   r.res = "Corrupted" /\ r.u = backend
             /\ \A r \in {ReadArrayOfObjectProxies(objects, backend, ty)} :
                   r.res = "Corrupted" /\ r.u = backend
    /\ (result.op = "object" /\ LacksDependency(result.before)) =>
          result.res = "Corrupted" /\ backend = result.before
    /\ (result.op \in {"array_of_objects_vec", "array_of_proxy_objects"}
        /\ LacksDependencies(result.before)) =>
          result.res = "Corrupted" /\ backend = result.before

\* an object read with the tag in place, bytes behind it and no dependency left
C31_Witness ==
    /\ result.op = "object"
    /\ result.res = "Corrupted"
    /\ LacksDependency(result.before)
    /\ Len(result.before.bytes) > 1
    /\ backend = result.before

\* ------------------------------------------------------------------- C32
PeekOps == {"peek_type", "peek_length"}

\* C32: peek_type and peek_length leave the byte cursor and the dependency
\* cursor (and the store) as they were, whatever they return; the read that
\* follows a peek is issued on the backend as it was before the peek and
\* returns what that read returns on it; and when peek_length has returned
\* a length and the read of the sequence that follows succeeds, the read
\* yields that many elements.
C32_PeeksLeaveCursors ==
    [][/\ result'.op \in PeekOps =>
             /\ backend' = backend
             /\ objects' = objects
             /\ result'.before = backend
       /\ (result.op \in PeekOps /\ result'.op \notin PeekOps) =>
             /\ result'.before = result.before
             /\ result'.op = "u8" =>
                   \A r \in {ReadPrimitiveU8(result.before)} :
                      result'.res = r.res /\ result'.val = r.val /\ backend' = r.u
             /\ result'.op = "array_of_u8_vec" =>
                   \A r \in {ReadPrimitiveArrayU8(result.before)} :
                      result'.res = r.res /\ result'.val = r.val /\ backend' = r.u
             /\ result'.op = "string" =>
                   \A r \in {String(result.before)} :
                      result'.res = r.res /\ result'.val = r.val /\ backend' = r.u
       /\ (/\ result.op = "peek_length"
           /\ result.res = "Ok"
           /\ result'.op \in {"array_of_u8_vec", "string", "array_of_objects_vec",
                              "array_of_proxy_objects"}
           /\ result'.res = "Ok") =>
             Len(result'.val) = result.val
      ]_vars

\* peek_length has returned the length of an array of objects that has
\* elements, with all bytes and dependencies still to be read
C32_Witness ==
    /\ result.op = "peek_length"
    /\ result.res = "Ok"
    /\ result.val = MaxCount
    /\ Head(result.before.bytes) = TagArrayOfObjects
    /\ backend = result.before
    /\ Len(backend.dependencies) >= result.val

\* ------------------------------------------------------------------- C33
\* the kind of value a tag byte opens
CategoryOf(byte) == ValueTypeFromByte(byte)[2]

\* C33: peek_length returns WrongValueType whenever the next value is a
\* fixed-size primitive or an object reference, returns OutOfData only when
\* no byte is left (or the stream ends inside the length of a sequence),
\* and returns the length whenever the next value is an array, a string or
\* an array of objects whose tag and length are there.
C33_PeekLengthClassifies ==
    result.op = "peek_length" =>
        \A b \in {result.before.bytes} :
           /\ (b # <<>> /\ CategoryOf(Head(b)) \in {"Primitive", "StashedObject"}) =>
                 result.res = "WrongValueType"
           /\ result.res = "OutOfData" =>
                 \/ b = <<>>
                 \/ /\ Len(b) < 5
                    /\ CategoryOf(Head(b)) \in {"Array", "String", "ArrayOfObjects"}
           /\ (Len(b) >= 5
               /\ CategoryOf(Head(b)) \in {"Array", "String", "ArrayOfObjects"}) =>
                 /\ result.res = "Ok"
                 /\ result.val = FromBeBytes(SubSeq(b, 2, 5))

\* ------------------------------------------------------------------- C34
\* C34: Unstasher::object_inplace validates the nested entry, goes back to
\* where it started and then writes from the same object reference: when
\* the Validate pass fails, the call returns its error, the target is as it
\* was and both cursors are where they started; when the call succeeds, the
\* Write pass has run, the target holds the content of the dependency, and
\* the cursors have moved by one tag byte and one dependency, not by two.
C34_ValidateRewindWrite ==
    result.op = "unstasher_object_inplace" =>
        /\ \A v \in {ObjectInplace(objects, result.before, result.target, "Validate")} :
              /\ v.res # "Ok" =>
                    /\ result.res = v.res
                    /\ result.phase = "Validate"
                    /\ result.val = result.target
                    /\ backend = result.before
              /\ v.res = "Ok" => result.phase = "Write"
        /\ result.res = "Ok" =>
              /\ result.phase = "Write"
              /\ Head(result.before.bytes) = TagStashedObject
              /\ backend.bytes = Tail(result.before.bytes)
              /\ backend.dependencies = Tail(result.before.dependencies)
              /\ WithStasher(result.val) = Head(result.before.dependencies)

\* an object that nests another restored in place, with another object
\* reference behind it in the stream
C34_Witness ==
    /\ result.op = "unstasher_object_inplace"
    /\ result.res = "Ok"
    /\ result.target.kids # <<>>
    /\ result.val # result.target
    /\ backend.bytes # <<>>
    /\ Head(backend.bytes) = TagStashedObject
    /\ backend.dependencies # <<>>

\* ------------------------------------------------------------------- C35
\* the entries of a store and what they hold, without the counts
Entries(objs) ==
    [h \in DOMAIN objs |-> <<objs[h].bytes, objs[h].dependencies>>]

\* C35: a stash or a handle drop that is called while a stash, an unstash
\* or an unstash_inplace of the same Stash is in progress ends in the fatal
\* borrow fault and leaves the store as it was; a stash that runs holds the
\* only guard there is, and a drop that runs finds none; the entries of the
\* store change only in the return of a stash that is the one operation in
\* progress or in a drop with none in progress; while only reads are in
\* progress, cloning a handle and num_objects go through.
C35_MutationsAreExclusive ==
    [][/\ (result'.op \in {"stash", "drop"} /\ result'.res = "Panic") =>
             /\ result'.during # <<>>
             /\ panicked'
             /\ objects' = objects
       /\ (result'.op \in {"stash", "drop"} /\ result'.during # <<>>) =>
             /\ result'.res = "Panic"
             /\ objects' = objects
       /\ \A i \in DOMAIN borrows' :
             borrows'[i].kind = "RefMut" => Len(borrows') = 1
       /\ Entries(objects') # Entries(objects) =>
             \/ result'.op = "stash" /\ Len(borrows) = 1 /\ borrows' = <<>>
             \/ result'.op = "drop" /\ borrows = <<>>
       /\ (/\ result'.op \in {"clone", "num_objects"}
           /\ result'.during # <<>>
           /\ \A i \in DOMAIN result'.during : result'.during[i].kind = "Ref") =>
             /\ result'.res = "Ok"
             /\ ~panicked'
      ]_vars

\* a drop attempted by the user's code inside an unstash that runs inside
\* another read, with entries in the store
C35_Witness ==
    /\ result.op = "drop"
    /\ result.res = "Panic"
    /\ Len(result.during) = MaxRunning
    /\ result.during[Len(result.during)].op = "unstash"
    /\ objects = result.store
    /\ objects # StashMapNew
    /\ panicked

\* ------------------------------------------------------------------- C36
\* the references to an entry there really are: the live handles and the
\* listings in the dependencies of stored entries
TrueRefs(objs, hs, h) == NumHandles(hs, h) + DepRefs(objs, h)

\* C36: the count of an entry is a 16-bit number that is incremented
\* unchecked: it always lies in 0..65535 and, while the program runs, equals
\* the true number of references modulo 65536, hence the true number while
\* that is at most 65535; a stash or clone that makes the 65536th reference
\* to an entry is not recorded: the build with overflow checks ends in a
\* fatal fault with the store as it was and never holds 65536 references,
\* the build without them leaves the count at 0 beside 65536 references.
C36_CountWrapsAtSixteenBits ==
    /\ \A h \in DOMAIN objects :
          objects[h].reference_count \in 0..(RefCountModulus - 1)
    /\ ~panicked =>
          \A h \in DOMAIN objects :
             /\ objects[h].reference_count
                   = TrueRefs(objects, handles, h) % RefCountModulus
             /\ result.build = "debug" =>
                   TrueRefs(objects, handles, h) < RefCountModulus
    /\ (/\ result.op \in {"stash", "clone"}
        /\ result.hash \in DOMAIN result.store
        /\ TrueRefs(result.store, result.counted, result.hash) = RefCountModulus - 1) =>
          IF result.build = "debug"
             THEN /\ panicked
                  /\ result.res = "Panic"
                  /\ objects = result.store
                  /\ handles = result.counted
             ELSE /\ result.res = "Ok"
                  /\ objects[result.hash].reference_count = 0
                  /\ TrueRefs(objects, handles, result.hash) = RefCountModulus

\* the build without checks after the stash of a new object that lists the
\* full entry as its dependency: 65536 references, a count of 0
C36_Witness ==
    /\ result.op = "stash"
    /\ result.res = "Ok"
    /\ result.build = "release"
    /\ result.hash \notin DOMAIN result.store
    /\ \E h \in DOMAIN objects :
          /\ objects[h].reference_count = 0
          /\ DepRefs(objects, h) = 1
          /\ TrueRefs(objects, handles, h) = RefCountModulus

\* ------------------------------------------------------------------- C37
\* the hashes that occur an odd number of times in a sequence: what is left
\* of the exclusive or of all of them
OddOnes(seq) ==
    {seq[i] : i \in {j \in DOMAIN seq : Occurrences(seq, seq[j]) % 2 = 1}}

\* two Unordered sequences of one length whose element hashes have the same
\* exclusive or
SameXor(a, b) ==
    /\ a.order = "Unordered"
    /\ b.order = "Unordered"
    /\ Len(a.elems) = Len(b.elems)
    /\ OddOnes(HashesOf(a.elems)) = OddOnes(HashesOf(b.elems))

\* C37: when two Unordered sequences of the same length have element hashes
\* with the same exclusive or, they have the same ObjectHash; the stash of
\* the second, after the first, finds the entry of the first, adds a
\* reference to it and stores nothing; and the unstash of the second handle
\* returns the elements of the first.
C37_XorMasksElements ==
    (result.op \in {"stash_second", "unstash_second"}
     /\ SameXor(result.first, result.second)) =>
        /\ WithStasher(result.first) = WithStasher(result.second)
        /\ result.hash2 = result.hash1
        /\ result.hash2 \in DOMAIN result.store
        /\ DOMAIN objects = DOMAIN result.store
        /\ objects[result.hash1].reference_count = 2
        /\ objects[result.hash1].dependencies = HashesOf(result.first.elems)
        /\ result.op = "unstash_second" =>
              /\ result.res = "Ok"
              /\ result.val = result.first.elems

\* [a, a] stashed, then [b, b]: the second handle gives back [a, a]
C37_Witness ==
    /\ result.op = "unstash_second"
    /\ result.first.order = "Unordered"
    /\ result.second.order = "Unordered"
    /\ Len(result.first.elems) = 2
    /\ result.first.elems[1] = result.first.elems[2]
    /\ Len(result.second.elems) = 2
    /\ result.second.elems[1] = result.second.elems[2]
    /\ result.first.elems[1] # result.second.elems[1]
    /\ result.res = "Ok"
    /\ result.val = result.first.elems
    /\ result.val # result.second.elems

\* ------------------------------------------------------------------- C38
\* the store of the tester once the created object is stashed
StoreOf(created) == StashAndAddReference(StashMapNew, created)

\* the Validate pass of the tester over the modified object
ValidateOf(r) ==
    WriterPass(StoreOf(r.created).objects, StoreOf(r.created).hash, "Validate",
               r.modified, r.writer)

\* the Write pass over the object as the Validate pass left it
WriteOf(r) ==
    WriterPass(StoreOf(r.created).objects, StoreOf(r.created).hash, "Write",
               ValidateOf(r).val, r.writer)

\* the first of the five failures that applies, in the order of the tester
FirstFailure(r) ==
    IF WithStasher(r.modified) = StoreOf(r.created).hash
    THEN Outcome("SameHashAfterModifying", "")
    ELSE IF ValidateOf(r).res # "Ok"
    THEN Outcome("BasicUnstashError", ValidateOf(r).res)
    ELSE IF WithStasher(ValidateOf(r).val) # WithStasher(r.modified)
    THEN Outcome("ModifiedDuringValidation", "")
    ELSE IF WriteOf(r).res # "Ok"
    THEN Outcome("UncaughtUnstashError", WriteOf(r).res)
    ELSE IF WithStasher(WriteOf(r).val) # StoreOf(r.created).hash
    THEN Outcome("DifferentHashAfterUnstashing", "")
    ELSE Outcome("Ok", "")

\* C38: test_stash_roundtrip_inplace reports the first that applies of:
\* SameHashAfterModifying when the modified object hashes like the stashed
\* original, BasicUnstashError when the Validate pass fails,
\* ModifiedDuringValidation when the hash of the object changed across a
\* Validate pass that succeeded, UncaughtUnstashError when the Write pass
\* fails, DifferentHashAfterUnstashing when the hash after the Write pass is
\* not the stashed one; otherwise Ok. UncaughtUnstashError is reported only
\* when the Validate pass returned Ok.
C38_FailuresInFixedOrder ==
    result.op = "test_stash_roundtrip_inplace" =>
        /\ result.outcome = FirstFailure(result)
        /\ result.outcome.kind = "UncaughtUnstashError" =>
              /\ ValidateOf(result).res = "Ok"
              /\ WriteOf(result).res = result.outcome.err
        /\ result.outcome.kind = "BasicUnstashError" =>
              result.outcome.err = ValidateOf(result).res

\* a writer that stores during Validate and would pass every later test is
\* reported as ModifiedDuringValidation
C38_Witness ==
    /\ result.op = "test_stash_roundtrip_inplace"
    /\ result.outcome.kind = "ModifiedDuringValidation"
    /\ WriteOf(result).res = "Ok"
    /\ WithStasher(WriteOf(result).val) = StoreOf(result.created).hash

\* ------------------------------------------------------------------- C39
\* the count of an entry, 0 when the store has no such entry
CountIn(objs, h) == IF h \in DOMAIN objs THEN objs[h].reference_count ELSE 0

\* C39: when the unstash step of stash_clone or stash_clone_proxy returns an
\* error, the store is as it was before the call: the same entries with the
\* same counts, nested entries that the stash step created included, and no
\* handle more; when it succeeds, the store holds the entry of the object
\* with one reference more than before, held by the handle returned.
C39_FailedCloneLeavesStore ==
    result.op = "stash_clone" =>
        IF result.res # "Ok"
        THEN /\ result.res # "Panic"
             /\ ~panicked
             /\ objects = result.before
             /\ handles = result.held
        ELSE /\ result.hash = WithStasher(result.obj)
             /\ result.hash \in DOMAIN objects
             /\ CountIn(objects, result.hash) = CountIn(result.before, result.hash) + 1
             /\ handles = AddHandle(result.held, result.hash)
             /\ \A h \in DOMAIN result.before : h \in DOMAIN objects

\* a failed clone of an object with a nested object, into a store that has
\* an entry for the nested object and none for the object
C39_Witness ==
    /\ result.op = "stash_clone"
    /\ result.res \notin {"Ok", "Panic"}
    /\ result.obj.kids # <<>>
    /\ WithStasher(result.obj.kids[1]) \in DOMAIN result.before
    /\ result.hash \notin DOMAIN result.before
    /\ result.hash \notin DOMAIN objects
    /\ objects = result.before

====
